---- MODULE Spec2Model ----
(***************************************************************************)
(* Product Metrics Sandbox: the synthetic data generators                  *)
(* (src/utils/generators.py), the cohort tables and the metrics computed   *)
(* from their output (src/utils/generators.py, src/utils/metrics.py), and  *)
(* the part of main that calls the generators (src/app.py).                *)
(*                                                                         *)
(* Units.  Time is counted in ticks, TicksPerDay of them to a day, from    *)
(* 2025-01-01 00:00 (tick 0).  Money is counted in mills (1/1000 of the    *)
(* currency unit), so that round(amount, 2) is a real conversion.          *)
(* Probabilities and percentages are exact fractions, compared by cross    *)
(* multiplication.                                                         *)
(*                                                                         *)
(* Randomness.  A numpy Generator is modelled as a cyclic stream of raw    *)
(* outputs 0..MaxLevel of period StreamLen.  default_rng(seed) maps a seed *)
(* to one fixed stream; default_rng(None) takes the stream from OS entropy *)
(* and is a free choice among all streams.  Every draw of the code takes   *)
(* the next raw output, in the order the code draws.                       *)
(***************************************************************************)
EXTENDS Integers, Sequences, FiniteSets, TLC

VARIABLES
    call,       \* the call made last that took arguments: function, arguments, seed
    users,      \* what generate_users gave: a dataset or an exception
    payments,   \* what generate_payments gave
    again,      \* what the same call gave when it was made a second time
    retention,  \* build_retention_cohorts(users, payments)
    churn,      \* churn_by_cohort_table(users, payments)
    cohorts,    \* build_cohorts(users, payments): the revenue and the LTV table
    metric,     \* the call of a function of metrics.py made last, and its result
    by_month    \* churn_rate_by_month(payments, d), for every d it was called with

vars == <<call, users, payments, again, retention, churn, cohorts, metric, by_month>>

\* what the functions of metrics.py and build_cohorts computed
analytics == <<cohorts, metric, by_month>>

----------------------------------------------------------------------------
(* Bounds of the model *)

MaxUsers == 2        \* n_users ranges over 0..MaxUsers
MaxPayments == 3     \* rows of a payments dataset given to the metrics
MaxLevel == 4        \* raw outputs of the generator: 0..MaxLevel
StreamLen == 4       \* period of the modelled random stream
TicksPerDay == 4     \* time resolution

----------------------------------------------------------------------------
(* Small helpers *)

Min(a, b) == IF a <= b THEN a ELSE b
Max(a, b) == IF a >= b THEN a ELSE b

RECURSIVE SumSeq(_)
SumSeq(s) == IF s = <<>> THEN 0 ELSE Head(s) + SumSeq(Tail(s))

RECURSIVE Insert(_, _)
Insert(x, s) ==
    IF s = <<>> THEN <<x>>
    ELSE IF x <= Head(s) THEN <<x>> \o s
    ELSE <<Head(s)>> \o Insert(x, Tail(s))

\* mutant of Sorted: the list is left in the order drawn
Unsorted(s) == s

\* sorted(list): ascending
RECURSIVE Sorted(_)
Sorted(s) == IF s = <<>> THEN <<>> ELSE Insert(Head(s), Sorted(Tail(s)))

----------------------------------------------------------------------------
(* The calendar: pandas dt.month and dt.to_period("M") *)

\* day of the year (0-based) on which each month of a non-leap year starts
MonthStarts == <<0, 31, 59, 90, 120, 151, 181, 212, 243, 273, 304, 334>>

DayOf(t) == t \div TicksPerDay

\* .dt.month: 1..12.  2025, 2026 and 2027 are not leap years.
MonthOf(t) == Cardinality({i \in 1..12 : MonthStarts[i] <= DayOf(t) % 365})

\* .dt.to_period("M") as a month count; Period differences are differences of it
PeriodOf(t) == 12 * (DayOf(t) \div 365) + MonthOf(t)

----------------------------------------------------------------------------
(* numpy.random.Generator *)

NoSeed == -1         \* seed=None
Levels == 0..MaxLevel
Streams == [1..StreamLen -> Levels]

\* SeedSequence: the fixed stream a seed stands for, the digits of a mix of the seed
SeedStream(seed) ==
    [k \in 1..StreamLen |->
        ((seed * 37 + 11) \div ((MaxLevel + 1) ^ (k - 1))) % (MaxLevel + 1)]

\* mutant of default_rng: the seed is not passed on
default_rng_unseeded(seed, entropy) == entropy

\* np.random.default_rng(seed): seeded, or from entropy when seed is None
default_rng(seed, entropy) == IF seed = NoSeed THEN entropy ELSE SeedStream(seed)

\* what the OS entropy pool may hold when default_rng(seed) is called; it is read
\* only when seed is None, so two samples stand for it when a seed is given
OsEntropy(seed) ==
    IF seed = NoSeed THEN Streams
    ELSE {[k \in 1..StreamLen |-> 0], [k \in 1..StreamLen |-> MaxLevel]}

\* the k-th raw output of generator rng
Raw(rng, k) == rng[((k - 1) % StreamLen) + 1]

\* rng.random() < num/den, with rng.random() = raw/(MaxLevel+1) in [0, 1)
RandomBelow(raw, num, den) == raw * den < num * (MaxLevel + 1)

\* rng.uniform(low, high) for low <= high: a point of [low, high]; numpy documents
\* that high itself may be returned because of floating-point rounding
Uniform(low, high, raw) == low + ((high - low) * raw) \div MaxLevel

\* rng.integers(low, high): low <= result < high
RandIntegers(low, high, raw) == low + (raw * (high - low)) \div (MaxLevel + 1)

----------------------------------------------------------------------------
(* generate_users *)

Channels == <<"ads", "organic", "referral">>

\* CHANNEL_CONVERSION_MULT, in hundredths; .get(channel, 1.0)
CHANNEL_CONVERSION_MULT(channel) ==
    CASE channel = "ads" -> 90
      [] channel = "organic" -> 100
      [] channel = "referral" -> 125
      [] OTHER -> 100

\* _seasonality_mult, in hundredths
_seasonality_mult(month, enabled) ==
    IF ~enabled THEN 100
    ELSE IF month \in {12, 1} THEN 120
    ELSE IF month \in {7, 8} THEN 85
    ELSE 100

\* denominator of the probability p of _effective_conversion
PDen == 100 * 100 * 100

\* p of _effective_conversion, as a numerator over PDen, clamped to [0, 1]
EffectiveP(base_rate_pct, channel, reg_month, seasonality_enabled) ==
    Min(PDen, Max(0, base_rate_pct * CHANNEL_CONVERSION_MULT(channel)
                        * _seasonality_mult(reg_month, seasonality_enabled)))

\* _effective_conversion: rng.random() < p
_effective_conversion(base_rate_pct, channel, reg_month, seasonality_enabled, raw) ==
    RandomBelow(raw, EffectiveP(base_rate_pct, channel, reg_month, seasonality_enabled),
                PDen)

\* channel_pct when the caller passes None
DefaultChannelPct == <<30, 50, 20>>

\* total = sum(channel_pct.values()) or 1
ChannelTotal(weights) == IF SumSeq(weights) = 0 THEN 1 ELSE SumSeq(weights)

\* probs = weights / total, then probs = probs / probs.sum(): probs[i] is
\* ProbsNum(weights, i) / ProbsDen(weights), and 0/0 is NaN
ProbsNum(weights, i) == weights[i] * ChannelTotal(weights)
ProbsDen(weights) == ChannelTotal(weights) * SumSeq(weights)
ProbsIsNaN(weights) == ProbsDen(weights) = 0

\* rng.choice(channels, p=probs): inverse CDF, cdf.searchsorted(u, side="right")
ChoiceIndex(weights, raw) ==
    1 + Cardinality({j \in 1..Len(weights) :
            SumSeq([i \in 1..j |-> ProbsNum(weights, i)]) * (MaxLevel + 1)
                <= raw * ProbsDen(weights)})

days_span == 365

\* start + timedelta(days=min(int(x), days_span - 1)), x = rng.uniform(0, days_span)
RegisteredAt(raw) ==
    LET x == Uniform(0, days_span * TicksPerDay, raw)      \* in ticks
    IN  Min(x \div TicksPerDay, days_span - 1) * TicksPerDay

\* mutant of UserIds: range(n_users)
UserIdsFromZero(n) == [i \in 1..n |-> i - 1]

\* user_id: range(1, n_users + 1)
UserIds(n) == [i \in 1..n |-> i]

NoUsers ==
    [status |-> "none", error |-> "", rows |-> <<>>, drawn |-> <<>>, p |-> <<>>,
     nan |-> FALSE]

Raised(error, nan) ==
    [status |-> "raised", error |-> error, rows |-> <<>>, drawn |-> <<>>, p |-> <<>>,
     nan |-> nan]

\* generate_users(n_users, conversion_rate, ab_test, channel_pct, seasonality_enabled)
\* drawing from rng.  Beside the rows of the DataFrame the result keeps three locals
\* of the call: drawn, the list registered_at as drawn; p, for every index i the
\* probability at which the conversion draw of index i was made; nan, whether probs
\* was NaN.
generate_users(a, rng) ==
    LET n == a.n_users
        weights == a.channel_pct
        registered_at == [i \in 1..n |-> RegisteredAt(Raw(rng, i))]
        channel == [i \in 1..n |-> Channels[ChoiceIndex(weights, Raw(rng, n + i))]]
        reg_months == [i \in 1..n |-> MonthOf(registered_at[i])]
        p == [i \in 1..n |->
                EffectiveP(a.conversion_rate, channel[i], reg_months[i],
                           a.seasonality_enabled)]
        converted == [i \in 1..n |->
                        _effective_conversion(a.conversion_rate, channel[i],
                                              reg_months[i], a.seasonality_enabled,
                                              Raw(rng, 2 * n + i))]
        variant == [i \in 1..n |->
                      IF a.ab_test
                      THEN (IF RandomBelow(Raw(rng, 3 * n + i), 1, 2)
                            THEN "control" ELSE "test")
                      ELSE "control"]
        dates == Sorted(registered_at)
    IN  IF ProbsIsNaN(weights)
        THEN Raised("ValueError", TRUE)          \* rng.choice: probabilities contain NaN
        ELSE IF n = 0
        THEN Raised("AttributeError", FALSE)     \* pd.Series([]).dt
        ELSE [status |-> "returned", error |-> "",
              rows |-> [i \in 1..n |->
                          [user_id |-> UserIds(n)[i], registered_at |-> dates[i],
                           converted |-> converted[i], variant |-> variant[i],
                           channel |-> channel[i]]],
              drawn |-> registered_at, p |-> p, nan |-> FALSE]

----------------------------------------------------------------------------
(* generate_payments *)

\* round(amount, 2) of an amount in mills: the nearest cent, an exact tie to the
\* even cent
Round2(x) ==
    LET q == x \div 10
        r == x % 10
    IN  IF r < 5 THEN 10 * q
        ELSE IF r > 5 THEN 10 * (q + 1)
        ELSE IF q % 2 = 0 THEN 10 * q ELSE 10 * (q + 1)

\* mutant of ChurnDays: a month of 31 days
ChurnDaysOfLongMonths(a) == (a.churn_months_x10 * 31 * TicksPerDay) \div 10

\* churn_days = churn_months * 30, in ticks; churn_months is given in tenths
ChurnDays(a) == (a.churn_months_x10 * 30 * TicksPerDay) \div 10

Days(d) == d * TicksPerDay

\* rows.append({"user_id": ..., "payment_id": ..., "amount": round(amount, 2), ...})
PaymentRow(uid, payment_id, amount, paid_at) ==
    [user_id |-> uid, payment_id |-> payment_id, amount |-> Round2(amount),
     paid_at |-> paid_at]

\* mutant of Stretch: the payment_id counter is not carried on to the next payer
StretchFromOne(rows, k, payment_id, error, draws) ==
    [rows |-> rows, k |-> k, payment_id |-> 1, error |-> error, draws |-> draws]

\* what a stretch of the generation loop gives: the rows appended, the index of the
\* next raw output, the next payment_id, whether rng.uniform raised ValueError
\* (numpy: "high - low must be non-negative"), and the locals of the stretch that
\* the rows do not show (see generate_payments)
Stretch(rows, k, payment_id, error, draws) ==
    [rows |-> rows, k |-> k, payment_id |-> payment_id, error |-> error,
     draws |-> draws]

\* mutant of RepeatAmountLow: every repeat amount is drawn from the full range
RepeatAmountLowOfRange(a, payment_number) == a.min_amount

\* low of the amount draw of a repeat payment: mid from the 3rd payment on
RepeatAmountLow(a, payment_number) ==
    IF payment_number >= 3 THEN (a.min_amount + a.max_amount) \div 2
    ELSE a.min_amount

\* mutant of GapLow: rng.uniform(0, min(churn_days, 70))
GapLowZero == Days(0)

\* mutant of GapHigh: rng.uniform(7, 70)
GapHighOfSeventy(a) == Days(70)

\* low of the gap draw, rng.uniform(7, min(churn_days, 70))
GapLow == Days(7)
GapHigh(a) == Min(ChurnDays(a), Days(70))

\* for _ in range(n_repeat): ..., with `left` iterations to go; draws: gap_days of
\* every iteration made, in order, the one that breaks included
RECURSIVE RepeatLoop(_, _, _, _, _, _, _, _)
RepeatLoop(a, rng, k, left, uid, payment_id, last_paid, payment_number) ==
    IF left = 0 THEN Stretch(<<>>, k, payment_id, FALSE, <<>>)
    ELSE IF GapHigh(a) < GapLow THEN Stretch(<<>>, k, payment_id, TRUE, <<>>)
    ELSE
        LET gap_days == Uniform(GapLow, GapHigh(a), Raw(rng, k))
            paid_at == last_paid + gap_days
            number == payment_number + 1
            low == RepeatAmountLow(a, number)
        IN  IF gap_days > ChurnDays(a)
            THEN Stretch(<<>>, k + 1, payment_id, FALSE, <<gap_days>>)
            ELSE IF a.max_amount < low
            THEN Stretch(<<>>, k + 1, payment_id, TRUE, <<gap_days>>)
            ELSE
                LET amount == Uniform(low, a.max_amount, Raw(rng, k + 1))
                    rest == RepeatLoop(a, rng, k + 2, left - 1, uid, payment_id + 1,
                                       paid_at, number)
                IN  Stretch(<<PaymentRow(uid, payment_id, amount, paid_at)>> \o rest.rows,
                            rest.k, rest.payment_id, rest.error,
                            <<gap_days>> \o rest.draws)

\* first_days = rng.uniform(0, 30), in ticks
FirstDays(raw) == Uniform(0, Days(30), raw)

\* mutant of FirstAmount: the first amount drawn from the range of the repeats
FirstAmountFromRange(a, raw) == Uniform(a.min_amount, a.max_amount, raw)

\* amount = rng.uniform(first_payment_min, first_payment_max)
FirstAmount(a, raw) == Uniform(a.first_payment_min, a.first_payment_max, raw)

\* the locals of the loop body for one payer: n_repeat as drawn (0 when the payer
\* does not repeat) and the gaps drawn in the loop over range(n_repeat)
PayerDraws(uid, n_repeat, gaps) ==
    [user_id |-> uid, n_repeat |-> n_repeat, gaps |-> gaps]

\* the body of `for uid in payers` for one payer registered at reg
PayUser(a, rng, k, uid, reg, payment_id) ==
    LET last_paid == reg + FirstDays(Raw(rng, k))
    IN  IF a.first_payment_max < a.first_payment_min
        THEN Stretch(<<>>, k + 1, payment_id, TRUE, <<>>)
        ELSE
            LET amount == FirstAmount(a, Raw(rng, k + 1))
                first == PaymentRow(uid, payment_id, amount, last_paid)
                repeats == RandomBelow(Raw(rng, k + 2), a.repeat_rate, 100)
                n_repeat == RandIntegers(1, 6, Raw(rng, k + 3))
                rest == RepeatLoop(a, rng, k + 4, n_repeat, uid, payment_id + 1,
                                   last_paid, 1)
            IN  IF ~repeats
                THEN Stretch(<<first>>, k + 3, payment_id + 1, FALSE,
                             <<PayerDraws(uid, 0, <<>>)>>)
                ELSE Stretch(<<first>> \o rest.rows, rest.k, rest.payment_id,
                             rest.error, <<PayerDraws(uid, n_repeat, rest.draws)>>)

\* mutant of RegOf: reg_dates.iloc[0]
RegOfFirstRow(urows, uid) == urows[1].registered_at

\* reg_dates.loc[uid]: registered_at of the (first) user with that user_id
RegOf(urows, uid) ==
    urows[CHOOSE i \in 1..Len(urows) :
            /\ urows[i].user_id = uid
            /\ \A j \in 1..(i - 1) : urows[j].user_id # uid].registered_at

\* for uid in payers: ..., from position i of the users table
RECURSIVE PayLoop(_, _, _, _, _, _)
PayLoop(a, rng, urows, i, k, payment_id) ==
    IF i > Len(urows) THEN Stretch(<<>>, k, payment_id, FALSE, <<>>)
    ELSE IF ~RandomBelow(Raw(rng, i), a.pay_rate, 100)       \* payers_mask
    THEN PayLoop(a, rng, urows, i + 1, k, payment_id)
    ELSE
        LET uid == urows[i].user_id
            one == PayUser(a, rng, k, uid, RegOf(urows, uid), payment_id)
            rest == PayLoop(a, rng, urows, i + 1, one.k, one.payment_id)
        IN  IF one.error THEN one
            ELSE Stretch(one.rows \o rest.rows, rest.k, rest.payment_id, rest.error,
                         one.draws \o rest.draws)

NoPayments == [status |-> "none", error |-> "", rows |-> <<>>]

\* generate_payments(users_df, ...) drawing from rng: the mask takes the first
\* len(users_df) raw outputs, the loop the following ones.  Beside the rows of the
\* DataFrame a returned result keeps, for every payer in the order of the loop,
\* the locals n_repeat and gap_days of the call.
generate_payments(urows, a, rng) ==
    LET all == PayLoop(a, rng, urows, 1, Len(urows) + 1, 1)
    IN  IF all.error
        THEN [status |-> "raised", error |-> "ValueError", rows |-> <<>>]
        ELSE [status |-> "returned", error |-> "", rows |-> all.rows,
              draws |-> all.draws]

----------------------------------------------------------------------------
(* Cohort tables: build_retention_cohorts and churn_by_cohort_table *)

\* mutant of MonthNumber: the difference of the months is not clamped
MonthNumberSigned(paid_at, registered_at) ==
    PeriodOf(paid_at) - PeriodOf(registered_at)

\* month_number: (paid_month - reg_month).n, clamped to >= 0
MonthNumber(paid_at, registered_at) ==
    LET n == PeriodOf(paid_at) - PeriodOf(registered_at)
    IN  IF n >= 0 THEN n ELSE 0

\* pay = payments_df.merge(users[["user_id", "cohort", "reg_month"]], on="user_id")
\* with the column month_number: the joined rows, as a set
Joined(urows, prows) ==
    {[user_id |-> prows[i].user_id,
      cohort |-> PeriodOf(urows[j].registered_at),
      month_number |-> MonthNumber(prows[i].paid_at, urows[j].registered_at)] :
        <<i, j>> \in {ij \in (1..Len(prows)) \X (1..Len(urows)) :
                        prows[ij[1]].user_id = urows[ij[2]].user_id}}

\* set(pay[(pay["cohort"] == cohort) & (pay["month_number"] == month_num)]["user_id"])
PayersAt(pay, cohort, month_num) ==
    {r.user_id : r \in {x \in pay : x.cohort = cohort /\ x.month_number = month_num}}

\* pay["cohort"].unique() and pay["month_number"].unique()
CohortsOf(pay) == {r.cohort : r \in pay}
MonthsOf(pay) == {r.month_number : r \in pay}

\* a percentage as an exact fraction; filled marks a cell that fillna(0) filled
Pct(num, den) == [num |-> num, den |-> den, filled |-> FALSE]
Filled == [num |-> 0, den |-> 1, filled |-> TRUE]

\* pct = returned / n_m0 * 100 if n_m0 else 0
RetentionPct(returned, n_m0) ==
    IF n_m0 # 0 THEN Pct(returned * 100, n_m0) ELSE Pct(0, 1)

\* mutant of ChurnPct: the share is taken of 100 only when somebody was retained
ChurnPctUnlessNone(retained, n_m0) ==
    IF n_m0 # 0 /\ retained # 0
    THEN [num |-> 100 * n_m0 - retained * 100, den |-> n_m0, filled |-> FALSE]
    ELSE [num |-> 0, den |-> 1, filled |-> FALSE]

\* churn_pct = 100 - (retained / n_m0 * 100) if n_m0 else 0
ChurnPct(retained, n_m0) ==
    IF n_m0 # 0 THEN Pct(100 * n_m0 - retained * 100, n_m0) ELSE Pct(0, 1)

\* mutant of RetentionKept: no cohort is skipped
RetentionKeptAll(pay) == {r.cohort : r \in pay}

\* the cohorts build_retention_cohorts does not skip: if not payers_m0: continue
RetentionKept(pay) == {c \in CohortsOf(pay) : PayersAt(pay, c, 0) # {}}

\* the cohorts churn_by_cohort_table does not skip
ChurnKept(pay) == {c \in CohortsOf(pay) : PayersAt(pay, c, 0) # {}}

\* retention_data
RetentionData(pay) ==
    {[cohort |-> c, month_number |-> m,
      pct |-> RetentionPct(Cardinality(PayersAt(pay, c, 0) \cap PayersAt(pay, c, m)),
                           Cardinality(PayersAt(pay, c, 0)))] :
        <<c, m>> \in RetentionKept(pay) \X MonthsOf(pay)}

\* churn_data
ChurnData(pay) ==
    {[cohort |-> c, month_number |-> m,
      pct |-> ChurnPct(Cardinality(PayersAt(pay, c, 0) \cap PayersAt(pay, c, m)),
                       Cardinality(PayersAt(pay, c, 0)))] :
        <<c, m>> \in ChurnKept(pay) \X MonthsOf(pay)}

NoTable == [status |-> "none", index |-> {}, columns |-> {}, cell |-> <<>>]
EmptyFrame == [status |-> "returned", index |-> {}, columns |-> {}, cell |-> <<>>]

\* df.pivot(index="cohort", columns="month_number", values=...).fillna(0)
PivotFillna(data) ==
    LET index == {d.cohort : d \in data}
        columns == {d.month_number : d \in data}
    IN  [status |-> "returned", index |-> index, columns |-> columns,
         cell |-> [cm \in index \X columns |->
                     IF \E d \in data : d.cohort = cm[1] /\ d.month_number = cm[2]
                     THEN (CHOOSE d \in data :
                             d.cohort = cm[1] /\ d.month_number = cm[2]).pct
                     ELSE Filled]]

build_retention_cohorts(urows, prows) ==
    IF urows = <<>> \/ prows = <<>> THEN EmptyFrame
    ELSE IF RetentionData(Joined(urows, prows)) = {} THEN EmptyFrame
    ELSE PivotFillna(RetentionData(Joined(urows, prows)))

churn_by_cohort_table(urows, prows) ==
    IF urows = <<>> \/ prows = <<>> THEN EmptyFrame
    ELSE IF ChurnData(Joined(urows, prows)) = {} THEN EmptyFrame
    ELSE PivotFillna(ChurnData(Joined(urows, prows)))

----------------------------------------------------------------------------
(* build_cohorts: the revenue table and the cumulative LTV table *)

\* Series.sum() of the column "amount" over a set of rows
RECURSIVE SumAmount(_)
SumAmount(rows) ==
    IF rows = {} THEN 0
    ELSE LET r == CHOOSE x \in rows : TRUE
         IN  r.amount + SumAmount(rows \ {r})

\* pay = payments_df.merge(users[["user_id", "cohort", "reg_month"]], on="user_id")
\* with the column month_number; a row is identified by its payment_id
PayMerged(urows, prows) ==
    {[payment_id |-> prows[ij[1]].payment_id,
      user_id |-> prows[ij[1]].user_id,
      amount |-> prows[ij[1]].amount,
      paid_at |-> prows[ij[1]].paid_at,
      cohort |-> PeriodOf(urows[ij[2]].registered_at),
      reg_month |-> PeriodOf(urows[ij[2]].registered_at),
      month_number |-> MonthNumber(prows[ij[1]].paid_at, urows[ij[2]].registered_at)] :
        ij \in {x \in (1..Len(prows)) \X (1..Len(urows)) :
                  prows[x[1]].user_id = urows[x[2]].user_id}}

\* a value of a float table: a ratio num/den, or NaN
Ratio(num, den) == [nan |-> FALSE, num |-> num, den |-> den]
NaN == [nan |-> TRUE, num |-> 0, den |-> 1]

\* pd.DataFrame()
EmptyTable == [index |-> {}, columns |-> {}, cell |-> <<>>]

\* pay.pivot_table(index="cohort", columns="month_number", values="amount",
\*                 aggfunc="sum", fill_value=0), in mills
PivotTableSum(pay) ==
    LET index == {r.cohort : r \in pay}
        columns == {r.month_number : r \in pay}
    IN  [index |-> index, columns |-> columns,
         cell |-> [cm \in index \X columns |->
                     LET group == {r \in pay : r.cohort = cm[1] /\ r.month_number = cm[2]}
                     IN  IF group = {} THEN 0 ELSE SumAmount(group)]]

\* users.groupby("cohort").size()
CohortSizes(urows) ==
    [c \in {PeriodOf(urows[i].registered_at) : i \in 1..Len(urows)} |->
        Cardinality({i \in 1..Len(urows) : PeriodOf(urows[i].registered_at) = c})]

\* one cell of cohort_revenue.cumsum(axis=1): the row summed over the columns up to m
RECURSIVE CumSum(_, _, _)
CumSum(table, c, ms) ==
    IF ms = {} THEN 0
    ELSE LET m == CHOOSE x \in ms : TRUE
         IN  table.cell[<<c, m>>] + CumSum(table, c, ms \ {m})

\* cumsum.div(cohort_sizes, axis=0): the rows of the frame and of the Series are
\* aligned on the union of their labels, and a label one of them lacks gives NaN
DivBySizes(table, sizes) ==
    LET index == table.index \cup DOMAIN sizes
    IN  [index |-> index, columns |-> table.columns,
         cell |-> [cm \in index \X table.columns |->
                     IF cm[1] \in table.index /\ cm[1] \in DOMAIN sizes
                     THEN Ratio(CumSum(table, cm[1],
                                       {k \in table.columns : k <= cm[2]}),
                                sizes[cm[1]])
                     ELSE NaN]]

NoCohorts == [status |-> "none", revenue |-> EmptyTable, ltv |-> EmptyTable]

build_cohorts(urows, prows) ==
    IF urows = <<>> \/ prows = <<>>
    THEN [status |-> "returned", revenue |-> EmptyTable, ltv |-> EmptyTable]
    ELSE LET cohort_revenue == PivotTableSum(PayMerged(urows, prows))
         IN  [status |-> "returned", revenue |-> cohort_revenue,
              ltv |-> DivBySizes(cohort_revenue, CohortSizes(urows))]

----------------------------------------------------------------------------
(* metrics.py: the scalar calculators *)

\* the rows of a DataFrame as a set
RowSet(rows) == {rows[i] : i \in 1..Len(rows)}

\* payments_df["user_id"].nunique()
Payers(prows) == {r.user_id : r \in RowSet(prows)}

\* what a call of a function of metrics.py gave: a value, or an exception
Gave(fn, value) == [fn |-> fn, status |-> "returned", error |-> "", value |-> value]
Threw(fn, error) == [fn |-> fn, status |-> "raised", error |-> error, value |-> NaN]
NoMetric == [fn |-> "none", status |-> "none", error |-> "", value |-> NaN]

calc_conversion_rate(urows) ==
    IF urows = <<>> THEN Gave("calc_conversion_rate", Ratio(0, 1))
    ELSE Gave("calc_conversion_rate",
              Ratio(100 * Cardinality({i \in 1..Len(urows) : urows[i].converted}),
                    Len(urows)))

calc_arpu(urows, prows) ==
    IF urows = <<>> THEN Gave("calc_arpu", Ratio(0, 1))
    ELSE LET total_revenue == IF prows # <<>> THEN SumAmount(RowSet(prows)) ELSE 0
         IN  Gave("calc_arpu", Ratio(total_revenue, Len(urows)))

calc_arppu(urows, prows) ==
    IF prows = <<>> THEN Gave("calc_arppu", Ratio(0, 1))
    ELSE IF Cardinality(Payers(prows)) = 0 THEN Gave("calc_arppu", Ratio(0, 1))
    ELSE Gave("calc_arppu", Ratio(SumAmount(RowSet(prows)), Cardinality(Payers(prows))))

\* pay of calc_ltv_n_months: month_number is getattr(x, "n", 0), not clamped
PayMergedSigned(urows, prows) ==
    {[payment_id |-> prows[ij[1]].payment_id,
      amount |-> prows[ij[1]].amount,
      month_number |-> PeriodOf(prows[ij[1]].paid_at)
                       - PeriodOf(urows[ij[2]].registered_at)] :
        ij \in {x \in (1..Len(prows)) \X (1..Len(urows)) :
                  prows[x[1]].user_id = urows[x[2]].user_id}}

calc_ltv_n_months(urows, prows, n_months) ==
    IF urows = <<>> \/ prows = <<>> THEN Gave("calc_ltv_n_months", Ratio(0, 1))
    ELSE LET pay_first_n == {r \in PayMergedSigned(urows, prows) :
                               r.month_number < n_months}
         IN  Gave("calc_ltv_n_months", Ratio(SumAmount(pay_first_n), Len(urows)))

\* mutant of calc_paying_share: the guard of the empty users dataset is left out, and
\* payers / len(users_df) divides by zero
calc_paying_share_unguarded(urows, prows) ==
    LET payers == IF prows # <<>> THEN Cardinality(Payers(prows)) ELSE 0
    IN  IF Len(urows) = 0 THEN Threw("calc_paying_share", "ZeroDivisionError")
        ELSE Gave("calc_paying_share", Ratio(payers * 100, Len(urows)))

calc_paying_share(urows, prows) ==
    IF urows = <<>> THEN Gave("calc_paying_share", Ratio(0, 1))
    ELSE LET payers == IF prows # <<>> THEN Cardinality(Payers(prows)) ELSE 0
         IN  Gave("calc_paying_share", Ratio(payers * 100, Len(urows)))

\* payments_df.groupby("user_id")["paid_at"].min() and .max()
FirstTs(prows, uid) ==
    CHOOSE t \in {r.paid_at : r \in {x \in RowSet(prows) : x.user_id = uid}} :
        \A r \in RowSet(prows) : r.user_id = uid => t <= r.paid_at

LastPayment(prows, uid) ==
    CHOOSE t \in {r.paid_at : r \in {x \in RowSet(prows) : x.user_id = uid}} :
        \A r \in RowSet(prows) : r.user_id = uid => t >= r.paid_at

calc_avg_check_repeat(prows) ==
    IF prows = <<>> THEN Gave("calc_avg_check_repeat", Ratio(0, 1))
    ELSE LET repeat_payments == {r \in RowSet(prows) :
                                   r.paid_at > FirstTs(prows, r.user_id)}
         IN  IF repeat_payments = {} THEN Gave("calc_avg_check_repeat", Ratio(0, 1))
             ELSE Gave("calc_avg_check_repeat",
                       Ratio(SumAmount(repeat_payments), Cardinality(repeat_payments)))

\* reference_date=None
NoDate == -1

\* the body of calc_churn_rate past the test for no payments, with the start of the
\* period taken period_days before the reference
ChurnRateOver(prows, inactive_days, period_days, reference) ==
    LET reference_date ==
            IF reference = NoDate
            THEN CHOOSE t \in {r.paid_at : r \in RowSet(prows)} :
                     \A r \in RowSet(prows) : t >= r.paid_at
            ELSE reference
        period_start == reference_date - Days(period_days)
        active_cutoff == period_start - Days(inactive_days)
        active_at_start == {u \in Payers(prows) :
                              LastPayment(prows, u) >= active_cutoff}
        churn_cutoff == reference_date - Days(inactive_days)
        churned == {u \in active_at_start : LastPayment(prows, u) < churn_cutoff}
    IN  IF Cardinality(active_at_start) = 0
        THEN Gave("calc_churn_rate", Ratio(0, 1))
        ELSE Gave("calc_churn_rate",
                  Ratio(Cardinality(churned) * 100, Cardinality(active_at_start)))

\* mutant of calc_churn_rate: the period is not counted back from the reference
calc_churn_rate_without_period(prows, inactive_days, period_days, reference) ==
    IF prows = <<>> THEN Gave("calc_churn_rate", Ratio(0, 1))
    ELSE ChurnRateOver(prows, inactive_days, 0, reference)

\* calc_churn_rate(payments_df, inactive_days, period_days, reference_date); with
\* reference_date=None the reference is the latest payment
calc_churn_rate(prows, inactive_days, period_days, reference) ==
    IF prows = <<>> THEN Gave("calc_churn_rate", Ratio(0, 1))
    ELSE ChurnRateOver(prows, inactive_days, period_days, reference)

----------------------------------------------------------------------------
(* metrics.py: churn_rate_by_month *)

\* Period.to_timestamp(): the first instant of the month
StartOfMonth(period) ==
    Days(365 * ((period - 1) \div 12) + MonthStarts[((period - 1) % 12) + 1])

\* months = sorted(pay["paid_month"].unique())
PaidMonths(prows) == {PeriodOf(r.paid_at) : r \in RowSet(prows)}

\* mutant of MonthsAfterFirst: for i in range(0, len(months))
MonthsFromFirst(months) == months

\* for i in range(1, len(months)): every month but the earliest
MonthsAfterFirst(months) == {m \in months : \E k \in months : k < m}

\* pd.Series(dtype=float) and pd.Series(result): the index and the values
EmptySeries == [keys |-> {}, value |-> <<>>]

churn_rate_by_month(prows, inactive_days) ==
    IF prows = <<>> \/ Len(prows) < 2 THEN EmptySeries
    ELSE IF Cardinality(PaidMonths(prows)) < 2 THEN EmptySeries
    ELSE LET active_at_start(curr_m) ==
                 {u \in Payers(prows) :
                    LastPayment(prows, u) >= StartOfMonth(curr_m) - Days(inactive_days)}
             churned(curr_m) ==
                 {u \in active_at_start(curr_m) :
                    LastPayment(prows, u) < StartOfMonth(curr_m)}
             keys == {m \in MonthsAfterFirst(PaidMonths(prows)) :
                        Cardinality(active_at_start(m)) # 0}
         IN  [keys |-> keys,
              value |-> [m \in keys |->
                           Ratio(Cardinality(churned(m)) * 100,
                                 Cardinality(active_at_start(m)))]]

\* by_month when churn_rate_by_month was not called yet
NoSeries == <<>>

NotAnalysed == cohorts = NoCohorts /\ metric = NoMetric /\ by_month = NoSeries

----------------------------------------------------------------------------
(* The calls the model makes *)

Seeds == {NoSeed, 7, 42}
ConversionRates == {55, 100}
ChannelPcts == {DefaultChannelPct, <<0, 0, 0>>, <<1, 1, 2>>}

UserArgs ==
    [n_users : 0..MaxUsers, conversion_rate : ConversionRates, ab_test : BOOLEAN,
     channel_pct : ChannelPcts, seasonality_enabled : BOOLEAN]

NoCall == [fn |-> "none", seed |-> NoSeed]

InitUsers ==
    /\ call = NoCall
    /\ users = NoUsers
    /\ payments = NoPayments
    /\ again = NoUsers
    /\ retention = NoTable
    /\ churn = NoTable
    /\ NotAnalysed

\* a call of generate_users, with a seed of SeedSet
GenerateUsersWith(SeedSet) ==
    /\ call = NoCall
    /\ \E a \in UserArgs, seed \in SeedSet :
       \E entropy \in OsEntropy(seed) :
        /\ call' = [fn |-> "generate_users", seed |-> seed, args |-> a]
        /\ users' = generate_users(a, default_rng(seed, entropy))
        /\ again' = NoUsers
        /\ UNCHANGED <<payments, retention, churn, analytics>>

GenerateUsers == GenerateUsersWith(Seeds)

\* the same call of generate_users made a second time, with a seed
GenerateUsersAgain ==
    /\ call.fn = "generate_users"
    /\ call.seed # NoSeed
    /\ again = NoUsers
    /\ \E entropy \in OsEntropy(call.seed) :
        again' = generate_users(call.args, default_rng(call.seed, entropy))
    /\ UNCHANGED <<call, users, payments, retention, churn, analytics>>

NextUsers == GenerateUsers \/ GenerateUsersAgain

\* generate_users alone, with and without a seed
SpecUsers == InitUsers /\ [][NextUsers]_vars

\* arguments of generate_payments: amounts in mills, churn_months in tenths, rates
\* in percent
PayArgs(mm, ff, c, pay_rate, repeat_rate) ==
    [min_amount |-> mm[1], max_amount |-> mm[2],
     first_payment_min |-> ff[1], first_payment_max |-> ff[2],
     churn_months_x10 |-> c, pay_rate |-> pay_rate, repeat_rate |-> repeat_rate]

AmountRanges == {<<99000, 5000000>>, <<1000000, 2000000>>}
FirstRanges == {<<299000, 499000>>, <<299991, 299994>>}
ChurnMonthsX10 == {1, 10, 30}

\* every churn window with the application's amounts, every pair of amount ranges
\* with the application's churn window, and one call where everybody pays and repeats
PaymentArgs ==
    {PayArgs(<<99000, 5000000>>, <<299000, 499000>>, c, 50, 50) : c \in ChurnMonthsX10}
    \cup {PayArgs(mm, ff, 30, 50, 50) : mm \in AmountRanges, ff \in FirstRanges}
    \cup {PayArgs(<<99000, 5000000>>, <<299000, 499000>>, 30, 100, 100)}

\* a call of generate_payments on the users dataset at hand, with a seed of SeedSet
GeneratePaymentsWith(SeedSet) ==
    /\ users.status = "returned"
    /\ payments.status = "none"
    /\ \E a \in PaymentArgs, seed \in SeedSet :
       \E entropy \in OsEntropy(seed) :
        /\ call' = [fn |-> "generate_payments", seed |-> seed, args |-> a]
        /\ payments' = generate_payments(users.rows, a, default_rng(seed, entropy))
    /\ again' = NoUsers
    /\ UNCHANGED <<users, retention, churn, analytics>>

GeneratePayments == GeneratePaymentsWith(Seeds)

\* the same call of generate_payments made a second time, with a seed
GeneratePaymentsAgain ==
    /\ call.fn = "generate_payments"
    /\ call.seed # NoSeed
    /\ again.status = "none"
    /\ \E entropy \in OsEntropy(call.seed) :
        again' = generate_payments(users.rows, call.args, default_rng(call.seed, entropy))
    /\ UNCHANGED <<call, users, payments, retention, churn, analytics>>

Seeded == Seeds \ {NoSeed}

NextSeeded ==
    \/ GenerateUsersWith(Seeded)
    \/ GenerateUsersAgain
    \/ GeneratePaymentsWith(Seeded)
    \/ GeneratePaymentsAgain

\* both generators called with a seed, and each call made a second time
SpecSeeded == InitUsers /\ [][NextSeeded]_vars

\* build_retention_cohorts(users_df, payments_df)
BuildRetentionCohorts ==
    /\ payments.status = "returned"
    /\ retention.status = "none"
    /\ retention' = build_retention_cohorts(users.rows, payments.rows)
    /\ UNCHANGED <<call, users, payments, again, churn, analytics>>

\* churn_by_cohort_table(users_df, payments_df)
ChurnByCohortTable ==
    /\ payments.status = "returned"
    /\ churn.status = "none"
    /\ churn' = churn_by_cohort_table(users.rows, payments.rows)
    /\ UNCHANGED <<call, users, payments, again, retention, analytics>>

\* the users datasets the payments are generated for: what generate_users returns
\* for 1..MaxUsers users registered on the first or the last day of the window
PipelineUsers ==
    {generate_users([n_users |-> n, conversion_rate |-> 55, ab_test |-> FALSE,
               channel_pct |-> DefaultChannelPct, seasonality_enabled |-> FALSE],
              [k \in 1..StreamLen |-> IF k <= n THEN d[k] ELSE 0]) :
        n \in 1..MaxUsers, d \in [1..MaxUsers -> {0, MaxLevel}]}

Init ==
    /\ call = NoCall
    /\ users \in PipelineUsers
    /\ payments = NoPayments
    /\ again = NoUsers
    /\ retention = NoTable
    /\ churn = NoTable
    /\ NotAnalysed

Next == GeneratePayments \/ BuildRetentionCohorts \/ ChurnByCohortTable

\* payments generated for a users dataset, and the cohort tables built from both
Spec == Init /\ [][Next]_vars

----------------------------------------------------------------------------
(* The metrics computed from a users and a payments dataset *)

\* the datasets the metrics are computed from: users registered on 2025-01-01 or
\* 2025-02-01, user_id dense and registered_at ascending as generate_users gives
\* them; payments on 2025-01-15, 2025-02-10 or 2025-03-05 with payment_id dense
RegDates == {Days(0), Days(31)}
PayDates == {Days(14), Days(40), Days(63)}
Amount(payment_id) == 150000 * payment_id - 50000

UsersFrames ==
    UNION {{[i \in 1..n |->
               [user_id |-> i, registered_at |-> d[i], converted |-> c[i],
                variant |-> "control", channel |-> "organic"]] :
              d \in {x \in [1..n -> RegDates] :
                       \A i, j \in 1..n : i < j => x[i] <= x[j]},
              c \in [1..n -> BOOLEAN]} : n \in 0..MaxUsers}

PaymentsFrames ==
    UNION {{[i \in 1..k |->
               [user_id |-> u[i], payment_id |-> i, amount |-> Amount(i),
                paid_at |-> t[i]]] :
              u \in [1..k -> 1..MaxUsers], t \in [1..k -> PayDates]} :
           k \in 0..MaxPayments}

Frame(rows) == [status |-> "returned", error |-> "", rows |-> rows]

\* a users and a payments dataset; the payments of a non-empty users dataset are
\* payments of its users
InitFrames ==
    /\ call = NoCall
    /\ users \in {Frame(rows) : rows \in UsersFrames}
    /\ payments \in {Frame(rows) : rows \in PaymentsFrames}
    /\ \/ users.rows = <<>>
       \/ \A i \in 1..Len(payments.rows) : payments.rows[i].user_id <= Len(users.rows)
    /\ again = NoUsers
    /\ retention = NoTable
    /\ churn = NoTable
    /\ NotAnalysed

generated == <<call, users, payments, again, retention, churn>>

\* cohort_revenue, cohort_ltv = build_cohorts(users_df, payments_df)
BuildCohorts ==
    /\ users.status = "returned" /\ payments.status = "returned"
    /\ cohorts.status = "none"
    /\ cohorts' = build_cohorts(users.rows, payments.rows)
    /\ UNCHANGED <<generated, metric, by_month>>

\* build_cohorts on a users and a payments dataset
SpecCohorts == InitFrames /\ [][BuildCohorts]_vars

\* default of calc_churn_rate
period_days == 30

InactiveDays == {30, 60}
NMonths == {1, 3}

CalcConversionRate ==
    /\ metric = NoMetric
    /\ metric' = calc_conversion_rate(users.rows)
    /\ UNCHANGED <<generated, cohorts, by_month>>

CalcArpu ==
    /\ metric = NoMetric
    /\ metric' = calc_arpu(users.rows, payments.rows)
    /\ UNCHANGED <<generated, cohorts, by_month>>

CalcArppu ==
    /\ metric = NoMetric
    /\ metric' = calc_arppu(users.rows, payments.rows)
    /\ UNCHANGED <<generated, cohorts, by_month>>

CalcLtvNMonths ==
    /\ metric = NoMetric
    /\ \E n_months \in NMonths :
        metric' = calc_ltv_n_months(users.rows, payments.rows, n_months)
    /\ UNCHANGED <<generated, cohorts, by_month>>

CalcPayingShare ==
    /\ metric = NoMetric
    /\ metric' = calc_paying_share(users.rows, payments.rows)
    /\ UNCHANGED <<generated, cohorts, by_month>>

CalcAvgCheckRepeat ==
    /\ metric = NoMetric
    /\ metric' = calc_avg_check_repeat(payments.rows)
    /\ UNCHANGED <<generated, cohorts, by_month>>

\* the reference dates calc_churn_rate is called with: none, the day of the latest
\* payment date of the datasets, and a day long after every payment
ReferenceDates == {NoDate, Days(63), Days(200)}

CalcChurnRate ==
    /\ metric = NoMetric
    /\ \E inactive_days \in InactiveDays, reference_date \in ReferenceDates :
        /\ call' = [fn |-> "calc_churn_rate", seed |-> NoSeed,
                    args |-> [inactive_days |-> inactive_days,
                              reference_date |-> reference_date]]
        /\ metric' = calc_churn_rate(payments.rows, inactive_days, period_days,
                                     reference_date)
    /\ UNCHANGED <<users, payments, again, retention, churn, cohorts, by_month>>

NextMetrics ==
    \/ CalcConversionRate
    \/ CalcArpu
    \/ CalcArppu
    \/ CalcLtvNMonths
    \/ CalcPayingShare
    \/ CalcAvgCheckRepeat
    \/ CalcChurnRate

\* the scalar calculators on a users and a payments dataset
SpecMetrics == InitFrames /\ [][NextMetrics]_vars

\* churn_rate_by_month(payments_df, inactive_days=d), for a d not yet asked for
ChurnRateByMonth ==
    /\ payments.status = "returned"
    /\ \E d \in InactiveDays \ DOMAIN by_month :
        by_month' = by_month @@ (d :> churn_rate_by_month(payments.rows, d))
    /\ UNCHANGED <<generated, cohorts, metric>>

\* churn_rate_by_month on a payments dataset, with every inactive_days
SpecChurn == InitFrames /\ [][ChurnRateByMonth]_vars

----------------------------------------------------------------------------
(* metrics.py: unit economics, calc_payback_months and calc_roi_by_cohorts *)

\* Python's None
None == [nan |-> FALSE, num |-> 0, den |-> 0]

\* round-half-even of num / den to an integer, den > 0
RoundDiv(num, den) ==
    LET q == num \div den
        r == num % den
    IN  IF 2 * r < den THEN q
        ELSE IF 2 * r > den THEN q + 1
        ELSE IF q % 2 = 0 THEN q ELSE q + 1

\* mutant of calc_payback_months: zero where the payback is undefined
calc_payback_months_zero(cac, arpu_monthly) ==
    IF arpu_monthly.num <= 0 THEN Gave("calc_payback_months", Ratio(0, 1))
    ELSE Gave("calc_payback_months",
              Ratio(cac * arpu_monthly.den, arpu_monthly.num))

\* calc_payback_months(cac, arpu_monthly): cac in mills, arpu_monthly a ratio of
\* mills with a positive denominator
calc_payback_months(cac, arpu_monthly) ==
    IF arpu_monthly.num <= 0 THEN Gave("calc_payback_months", None)
    ELSE Gave("calc_payback_months",
              Ratio(cac * arpu_monthly.den, arpu_monthly.num))

\* DataFrame.empty: an axis of length 0
IsEmptyTable(table) == table.index = {} \/ table.columns = {}

\* ((ltv - cac) / cac * 100).round(1), in tenths of a percent; NaN stays NaN
RoiOf(ltv, cac) ==
    IF ltv.nan THEN NaN
    ELSE Ratio(RoundDiv(1000 * (ltv.num - cac * ltv.den), cac * ltv.den), 10)

calc_roi_by_cohorts(cohort_ltv, cac, last_n_months) ==
    IF IsEmptyTable(cohort_ltv) \/ cac <= 0 \/ Cardinality(cohort_ltv.columns) = 0
    THEN Gave("calc_roi_by_cohorts", EmptySeries)
    ELSE LET target_col == last_n_months - 1
             col == IF target_col \in cohort_ltv.columns THEN target_col
                    ELSE CHOOSE k \in cohort_ltv.columns :
                             \A j \in cohort_ltv.columns : j <= k
         IN  Gave("calc_roi_by_cohorts",
                  [keys |-> cohort_ltv.index,
                   value |-> [c \in cohort_ltv.index |->
                                RoiOf(cohort_ltv.cell[<<c, col>>], cac)]])

\* the LTV tables: what build_cohorts gives for the datasets of the metrics, the
\* payments being payments of users of the dataset
CohortTables ==
    {build_cohorts(up[1], up[2]) :
        up \in {x \in UsersFrames \X PaymentsFrames :
                  \/ x[1] = <<>>
                  \/ \A i \in 1..Len(x[2]) : x[2][i].user_id <= Len(x[1])}}

\* the arguments: CAC in mills (a CAC of 5 currency units, and the values around
\* 0), the monthly ARPU as a ratio of mills, the month count of the LTV column
Cacs == {-5000, 0, 5000}
ArpuMonthly == {Ratio(n, d) : n \in {-1000, 0, 2500}, d \in {1, 6}}
LastNMonths == {1, 2, 6}

InitUnit ==
    /\ call = NoCall
    /\ users = NoUsers
    /\ payments = NoPayments
    /\ again = NoUsers
    /\ retention = NoTable
    /\ churn = NoTable
    /\ cohorts \in CohortTables
    /\ metric = NoMetric
    /\ by_month = NoSeries

\* payback = calc_payback_months(cac, arpu_monthly)
CalcPaybackMonths ==
    /\ metric = NoMetric
    /\ \E cac \in Cacs, arpu_monthly \in ArpuMonthly :
        /\ call' = [fn |-> "calc_payback_months", seed |-> NoSeed,
                    args |-> [cac |-> cac, arpu_monthly |-> arpu_monthly]]
        /\ metric' = calc_payback_months(cac, arpu_monthly)
    /\ UNCHANGED <<users, payments, again, retention, churn, cohorts, by_month>>

\* roi_cohorts = calc_roi_by_cohorts(cohort_ltv, cac, last_n_months)
CalcRoiByCohorts ==
    /\ metric = NoMetric
    /\ cohorts.status = "returned"
    /\ \E cac \in Cacs, last_n_months \in LastNMonths :
        /\ call' = [fn |-> "calc_roi_by_cohorts", seed |-> NoSeed,
                    args |-> [cac |-> cac, last_n_months |-> last_n_months]]
        /\ metric' = calc_roi_by_cohorts(cohorts.ltv, cac, last_n_months)
    /\ UNCHANGED <<users, payments, again, retention, churn, cohorts, by_month>>

NextUnit == CalcPaybackMonths \/ CalcRoiByCohorts

\* the unit economics of a cohort LTV table
SpecUnit == InitUnit /\ [][NextUnit]_vars

----------------------------------------------------------------------------
(* metrics.py: ab_metrics *)

Abs(x) == IF x >= 0 THEN x ELSE -x

\* scipy.stats.chi2_contingency of the table [[a, b], [c, d]] of counts, not all 0:
\* ValueError when a cell of the table of expected frequencies is 0, which is when
\* a row or a column of the table sums to 0; else the statistic with Yates'
\* correction (1 degree of freedom), every |observed - expected| = |ad - bc| / N
\* being reduced by min(0.5, |observed - expected|)
chi2_contingency(a, b, c, d) ==
    LET row1 == a + b
        row2 == c + d
        col1 == a + c
        col2 == b + d
        n == a + b + c + d
        diff == Abs(a * d - b * c)
    IN  IF row1 = 0 \/ row2 = 0 \/ col1 = 0 \/ col2 = 0
        THEN [status |-> "raised", error |-> "ValueError", chi2 |-> NaN]
        ELSE [status |-> "returned", error |-> "",
              chi2 |-> IF 2 * diff > n
                       THEN Ratio((2 * diff - n) * (2 * diff - n) * n,
                                  4 * row1 * row2 * col1 * col2)
                       ELSE Ratio(0, 1)]

\* a p-value: the number 0.0 or 1.0, or the upper tail probability of the
\* chi-squared distribution (1 degree of freedom) at a statistic, or what Welch's
\* t-test gives for two samples that do not both have zero variance
PZero == [kind |-> "0.0", chi2 |-> Ratio(0, 1)]
POne == [kind |-> "1.0", chi2 |-> Ratio(0, 1)]
PWelch == [kind |-> "ttest_ind", chi2 |-> Ratio(0, 1)]
PChi2(chi2) == [kind |-> "chi2.sf", chi2 |-> chi2]

\* p_value < 0.05 of a chi-squared p-value: the statistic is above the 0.95
\* quantile of the distribution, 3.841459 (to 6 decimals)
PBelowAlpha(p) ==
    \/ p.kind = "0.0"
    \/ p.kind = "chi2.sf" /\ p.chi2.num * 1000000 > 3841459 * p.chi2.den

\* revenue of a user: rev_per_user.get(uid), 0 for a user without payments
RevenueOf(prows, uid) == SumAmount({r \in RowSet(prows) : r.user_id = uid})

\* stats.ttest_ind(x, y, equal_var=False) made a number: both samples of zero
\* variance give NaN when the means are equal (kept as 1.0) and a division of a
\* non-zero difference by zero, p = 0.0, when they differ
PValueArpu(prows, control, test) ==
    LET all_control_rev == {RevenueOf(prows, r.user_id) : r \in control}
        all_test_rev == {RevenueOf(prows, r.user_id) : r \in test}
    IN  IF prows = <<>> \/ control = {} \/ test = {} THEN POne
        ELSE IF Cardinality(control) < 2 \/ Cardinality(test) < 2 THEN POne
        ELSE IF Cardinality(all_control_rev) = 1 /\ Cardinality(all_test_rev) = 1
        THEN (IF all_control_rev = all_test_rev THEN POne ELSE PZero)
        ELSE PWelch

\* the result without a comparison
Neutral ==
    [summary |-> <<>>, p_value |-> PZero, uplift |-> Ratio(0, 1),
     significant |-> FALSE]

\* ab_metrics(users_df, payments_df); variant_column: "variant" in users_df.columns
ab_metrics(urows, variant_column, prows) ==
    IF ~variant_column \/ Cardinality({r.variant : r \in RowSet(urows)}) < 2
    THEN Gave("ab_metrics", Neutral)
    ELSE LET control == {r \in RowSet(urows) : r.variant = "control"}
             test == {r \in RowSet(urows) : r.variant = "test"}
             conv_control == Cardinality({r \in control : r.converted})
             conv_test == Cardinality({r \in test : r.converted})
             n_control == Cardinality(control)
             n_test == Cardinality(test)
             chi == chi2_contingency(conv_control, n_control - conv_control,
                                     conv_test, n_test - conv_test)
             uplift == IF conv_control # 0
                       THEN Ratio((conv_test * n_control - conv_control * n_test) * 100,
                                  conv_control * n_test)
                       ELSE Ratio(0, 1)
             rev_control == IF prows # <<>>
                            THEN SumAmount({r \in RowSet(prows) :
                                     \E u \in control : u.user_id = r.user_id})
                            ELSE 0
             rev_test == IF prows # <<>>
                         THEN SumAmount({r \in RowSet(prows) :
                                  \E u \in test : u.user_id = r.user_id})
                         ELSE 0
             p_value_arpu == PValueArpu(prows, control, test)
             summary ==
                 <<[group |-> "control", users |-> n_control,
                    conversion |-> Ratio(RoundDiv(10000 * conv_control, n_control), 100),
                    revenue |-> Round2(rev_control),
                    arpu |-> 10 * RoundDiv(rev_control, 10 * n_control),
                    arpu_p_value |-> p_value_arpu],
                   [group |-> "test", users |-> n_test,
                    conversion |-> Ratio(RoundDiv(10000 * conv_test, n_test), 100),
                    revenue |-> Round2(rev_test),
                    arpu |-> 10 * RoundDiv(rev_test, 10 * n_test),
                    arpu_p_value |-> p_value_arpu]>>
         IN  IF chi.status = "raised" THEN Threw("ab_metrics", chi.error)
             ELSE Gave("ab_metrics",
                       [summary |-> summary, p_value |-> PChi2(chi.chi2),
                        uplift |-> uplift,
                        significant |-> PBelowAlpha(PChi2(chi.chi2))])

\* the users of an A/B comparison: up to MaxUsers + 2 of them, each with a variant
\* label and converted or not; "B" is a label that is neither control nor test
Variants == {"control", "test", "B"}
AbUsersFrames ==
    UNION {{[i \in 1..n |->
               [user_id |-> i, registered_at |-> Days(0), converted |-> c[i],
                variant |-> v[i], channel |-> "organic"]] :
              v \in [1..n -> Variants], c \in [1..n -> BOOLEAN]} :
           n \in 0..(MaxUsers + 2)}

\* their payments: one payment of 100.00 by every user of a set
AbPayers(urows) ==
    {{}, 1..Len(urows), {i \in 1..Len(urows) : i = 1},
     {i \in 1..Len(urows) : urows[i].variant = "control"}}

AbPayments(payers) ==
    [i \in 1..Cardinality(payers) |->
       [user_id |-> CHOOSE u \in payers : Cardinality({x \in payers : x < u}) = i - 1,
        payment_id |-> i, amount |-> 100000, paid_at |-> Days(14)]]

InitAB ==
    /\ call = NoCall
    /\ users \in {Frame(rows) : rows \in AbUsersFrames}
    /\ payments \in {Frame(AbPayments(payers)) : payers \in AbPayers(users.rows)}
    /\ again = NoUsers
    /\ retention = NoTable
    /\ churn = NoTable
    /\ NotAnalysed

\* summary_df, p_value, uplift, significant = ab_metrics(users_df, payments_df)
AbMetrics ==
    /\ metric = NoMetric
    /\ \E variant_column \in BOOLEAN :
        /\ call' = [fn |-> "ab_metrics", seed |-> NoSeed,
                    args |-> [variant_column |-> variant_column]]
        /\ metric' = ab_metrics(users.rows, variant_column, payments.rows)
    /\ UNCHANGED <<users, payments, again, retention, churn, cohorts, by_month>>

\* ab_metrics on a users and a payments dataset
SpecAB == InitAB /\ [][AbMetrics]_vars

----------------------------------------------------------------------------
(* metrics.py: calc_mde_and_sample_size *)

\* Probabilities are counted in thousandths.  (z_alpha + z_beta) ** 2 of the
\* defaults alpha=0.05, power=0.8 is 7.8489, taken as 785 / 100; ratio is 1.

\* ceil(num / den), den > 0
CeilDiv(num, den) == -((-num) \div den)

\* p * (1 - p), in millionths
Variance(p) == p * (1000 - p)

\* p2 = min(0.99, p1 * (1 + target_lift_pct / 100))
LiftedRate(p1, target_lift_pct) == Min(990, (p1 * (100 + target_lift_pct)) \div 100)

\* ceil((z_alpha + z_beta) ** 2 * (var1 + var2 / ratio) / effect ** 2), effect # 0
NNeeded(p1, p2, effect) ==
    CeilDiv(785 * (Variance(p1) + Variance(p2)), 100 * effect * effect)

\* the sample size the MDE is solved for
n_ref == 1000

\* mde_equation(effect_abs) <= 0, for effect_abs > 0
MdeEquationNotAbove(p_control, effect_abs) ==
    NNeeded(p_control, Min(990, p_control + effect_abs), effect_abs) <= n_ref

\* brentq(mde_equation, 0.001, min(0.5, 1 - p_control - 0.001)): ValueError unless
\* mde_equation changes sign over the interval (it is positive at 0.001 and
\* falls); else the root, found to the thousandth
BrentqHigh(p_control) == Min(500, 1000 - p_control - 1)

BrentqBrackets(p_control) ==
    /\ BrentqHigh(p_control) >= 1
    /\ MdeEquationNotAbove(p_control, BrentqHigh(p_control))

Brentq(p_control) ==
    CHOOSE e \in 1..BrentqHigh(p_control) :
        /\ MdeEquationNotAbove(p_control, e)
        /\ \A x \in 1..(e - 1) : ~MdeEquationNotAbove(p_control, x)

\* the pair returned: mde_pct as a ratio of percent, n_per_group
MdePair(mde_pct, n_per_group) == [mde_pct |-> mde_pct, n |-> n_per_group]

\* a result with the steps of the function that were evaluated on the way to it
Traced(result, evaluated) ==
    [fn |-> result.fn, status |-> result.status, error |-> result.error,
     value |-> result.value, evaluated |-> evaluated]

\* calc_mde_and_sample_size(p_control, target_lift_pct=...), p_control in
\* thousandths.  With effect_size = 0 the quotient of line 302 is a numpy float
\* divided by 0.0, which is inf, and ceil(inf) raises OverflowError outside the try.
calc_mde_and_sample_size(p_control, target_lift_pct) ==
    IF p_control <= 0 \/ p_control >= 1000
    THEN Traced(Gave("calc_mde_and_sample_size", MdePair(Ratio(0, 1), 0)), {})
    ELSE LET p1 == p_control
             p2 == LiftedRate(p1, target_lift_pct)
             effect_size == p2 - p1
             n_per_group == Max(30, NNeeded(p1, p2, effect_size))
             mde_pct == IF BrentqBrackets(p_control)
                        THEN Ratio(RoundDiv(1000 * Brentq(p_control), p_control), 10)
                        ELSE Ratio(50, 1)
         IN  IF effect_size = 0
             THEN Traced(Threw("calc_mde_and_sample_size", "OverflowError"),
                         {"power formula"})
             ELSE Traced(Gave("calc_mde_and_sample_size", MdePair(mde_pct, n_per_group)),
                         {"power formula", "brentq"})

\* mde_equation(effect_abs) <= 0 of calc_mde_simple, for effect_abs > 0
SimpleEquationNotAbove(n_per_group, p_control, effect_abs) ==
    NNeeded(p_control, Min(990, p_control + effect_abs), effect_abs) <= n_per_group

\* brentq(mde_equation, 0.001, min(0.5, 1 - p_control - 0.001)) of calc_mde_simple
SimpleBrackets(n_per_group, p_control) ==
    /\ BrentqHigh(p_control) >= 1
    /\ ~SimpleEquationNotAbove(n_per_group, p_control, 1)
    /\ SimpleEquationNotAbove(n_per_group, p_control, BrentqHigh(p_control))

SimpleBrentq(n_per_group, p_control) ==
    CHOOSE e \in 1..BrentqHigh(p_control) :
        /\ SimpleEquationNotAbove(n_per_group, p_control, e)
        /\ \A x \in 1..(e - 1) : ~SimpleEquationNotAbove(n_per_group, p_control, x)

\* what calc_mde_simple does past its guard
SolveMdeSimple(n_per_group, p_control) ==
    Traced(Gave("calc_mde_simple",
                IF SimpleBrackets(n_per_group, p_control)
                THEN Ratio(RoundDiv(1000 * SimpleBrentq(n_per_group, p_control),
                                    p_control), 10)
                ELSE Ratio(50, 1)),
           {"power formula", "brentq"})

\* mutant of calc_mde_simple: n_per_group is not checked
calc_mde_simple_any_n(n_per_group, p_control) ==
    IF p_control <= 0 \/ p_control >= 1000
    THEN Traced(Gave("calc_mde_simple", Ratio(0, 1)), {})
    ELSE SolveMdeSimple(n_per_group, p_control)

\* calc_mde_simple(n_per_group, p_control), p_control in thousandths
calc_mde_simple(n_per_group, p_control) ==
    IF n_per_group <= 0 \/ p_control <= 0 \/ p_control >= 1000
    THEN Traced(Gave("calc_mde_simple", Ratio(0, 1)), {})
    ELSE SolveMdeSimple(n_per_group, p_control)

\* p_control from -0.005 to 1.005 in steps of 0.005, and the lifts for which the
\* lifted rate of such a p_control is a whole number of thousandths
PControls == {5 * k : k \in -1..201}
Lifts == {-100, 0, 20, 100}

InitMde ==
    /\ call = NoCall
    /\ users = NoUsers
    /\ payments = NoPayments
    /\ again = NoUsers
    /\ retention = NoTable
    /\ churn = NoTable
    /\ NotAnalysed

\* mde_pct, n_recommend = calc_mde_and_sample_size(p_control, target_lift_pct=...)
CalcMdeAndSampleSize ==
    /\ metric = NoMetric
    /\ \E p_control \in PControls, target_lift_pct \in Lifts :
        /\ call' = [fn |-> "calc_mde_and_sample_size", seed |-> NoSeed,
                    args |-> [p_control |-> p_control,
                              target_lift_pct |-> target_lift_pct]]
        /\ metric' = calc_mde_and_sample_size(p_control, target_lift_pct)
    /\ UNCHANGED <<users, payments, again, retention, churn, cohorts, by_month>>

\* the sample sizes calc_mde_simple is called with: none, one, the smallest
\* recommended, the reference size
NPerGroup == {-1, 0, 1, 30, n_ref}

\* mde_actual = calc_mde_simple(n_control, p_control)
CalcMdeSimple ==
    /\ metric = NoMetric
    /\ \E n_per_group \in NPerGroup, p_control \in PControls :
        /\ call' = [fn |-> "calc_mde_simple", seed |-> NoSeed,
                    args |-> [n_per_group |-> n_per_group, p_control |-> p_control]]
        /\ metric' = calc_mde_simple(n_per_group, p_control)
    /\ UNCHANGED <<users, payments, again, retention, churn, cohorts, by_month>>

NextMde == CalcMdeAndSampleSize \/ CalcMdeSimple

\* the two MDE solvers on a baseline conversion, a target lift and a sample size
SpecMde == InitMde /\ [][NextMde]_vars

----------------------------------------------------------------------------
(* app.py: main, from the sidebar to the generated datasets *)

\* channel_pct of main: the three sliders divided by their total and multiplied by
\* 100, or the default shares when the total is not positive.  The shares are kept
\* as numerators over one denominator, share[i] / den percent.
ChannelPctOf(pct_ads, pct_organic, pct_referral) ==
    LET total_ch == pct_ads + pct_organic + pct_referral
    IN  IF total_ch <= 0
        THEN [share |-> DefaultChannelPct, den |-> 1]
        ELSE [share |-> <<pct_ads * 100, pct_organic * 100, pct_referral * 100>>,
              den |-> total_ch]

\* mutant of MaxAmountOf: the number typed is passed on as it is
MaxAmountAsTyped(min_amount, max_amount) == max_amount

\* if min_amount > max_amount: max_amount = min_amount
MaxAmountOf(min_amount, max_amount) ==
    IF min_amount > max_amount THEN min_amount ELSE max_amount

\* what the widgets of the sidebar can hold: a slider 0..100 in steps of 5 for each
\* channel, number inputs 1..5000 and 100..50000 (currency units) for the amounts,
\* the A/B checkbox, and the seed (None when it is not fixed)
ChannelSliders == {<<0, 0, 0>>, <<30, 50, 20>>, <<5, 0, 0>>, <<0, 50, 5>>}
MinAmounts == {1, 99, 5000}
MaxAmounts == {100, 5000, 50000}
Sidebar ==
    [n_users : 1..MaxUsers, pct : ChannelSliders, min_amount : MinAmounts,
     max_amount : MaxAmounts, ab_test : BOOLEAN, seed : Seeds]

\* what the OS entropy pool holds when a generator of main is made without a seed
EntropyOfRun ==
    {[k \in 1..StreamLen |-> 0], [k \in 1..StreamLen |-> MaxLevel], SeedStream(7)}

\* the arguments main passes to generate_users (lines 355-360)
UsersArgsOf(w) ==
    LET channel_pct == ChannelPctOf(w.pct[1], w.pct[2], w.pct[3])
    IN  [n_users |-> w.n_users, conversion_rate |-> 12, ab_test |-> w.ab_test,
         channel_pct |-> channel_pct.share, channel_den |-> channel_pct.den,
         seasonality_enabled |-> TRUE]

\* the arguments main passes to generate_payments (lines 361-367), amounts in mills;
\* pay_rate and repeat_rate are the defaults of generate_payments
PaymentsArgsOf(w) ==
    PayArgs(<<1000 * w.min_amount, 1000 * MaxAmountOf(w.min_amount, w.max_amount)>>,
            <<299000, 499000>>, 30, 15, 30)

\* one run of main() up to line 368: the sidebar is read, the parameters are
\* checked, both generators are called with the same seed (each makes its own
\* generator) and the cohorts are built; an exception of a call ends the run
Main ==
    /\ call = NoCall
    /\ \E w \in Sidebar :
       \E e1, e2 \in (IF w.seed = NoSeed THEN EntropyOfRun ELSE {SeedStream(w.seed)}) :
        LET users_df == generate_users(UsersArgsOf(w), default_rng(w.seed, e1))
            payments_df ==
                IF users_df.status = "returned"
                THEN generate_payments(users_df.rows, PaymentsArgsOf(w),
                                       default_rng(w.seed, e2))
                ELSE NoPayments
        IN  /\ call' = [fn |-> "main", seed |-> w.seed, args |-> w,
                        users_args |-> UsersArgsOf(w),
                        payments_args |-> PaymentsArgsOf(w)]
            /\ users' = users_df
            /\ payments' = payments_df
            /\ cohorts' = IF payments_df.status = "returned"
                          THEN build_cohorts(users_df.rows, payments_df.rows)
                          ELSE NoCohorts
    /\ UNCHANGED <<again, retention, churn, metric, by_month>>

\* runs of the application
SpecMain == InitUsers /\ [][Main]_vars

----------------------------------------------------------------------------
(* Claims about generate_users, under SpecUsers *)

Returned == users.status = "returned"
Rows == users.rows
Args == call.args

\* C1: every user's conversion draw is made at the probability computed from the
\* month of the registered_at stored in that user's own record (after the sort).
C1_DrawUsesOwnMonth ==
    Returned =>
        \A i \in 1..Len(Rows) :
            users.p[i] = EffectiveP(Args.conversion_rate, Rows[i].channel,
                                    MonthOf(Rows[i].registered_at),
                                    Args.seasonality_enabled)

WindowEnd == (days_span - 1) * TicksPerDay

\* C4: every registered_at of a returned dataset lies in 2025-01-01..2025-12-31 and
\* registered_at is non-decreasing in user_id.
C4_WindowAndOrder ==
    Returned =>
        /\ \A i \in 1..Len(Rows) :
              0 <= Rows[i].registered_at /\ Rows[i].registered_at <= WindowEnd
        /\ \A i, j \in 1..Len(Rows) :
              Rows[i].user_id < Rows[j].user_id
                  => Rows[i].registered_at <= Rows[j].registered_at

\* the dates were drawn in descending order, the first of them at the end of the range
C4_Witness ==
    /\ Returned
    /\ Len(Rows) >= 2
    /\ users.drawn[1] > users.drawn[2]
    /\ users.drawn[1] = WindowEnd
    /\ Rows[1].registered_at < Rows[2].registered_at

AllZero(weights) == \A i \in 1..Len(weights) : weights[i] = 0

\* C5: with all-zero channel weights generate_users signals an input error, without
\* normalising to NaN probabilities and without returning a dataset; positive weights
\* are normalised to sum to 1 before the channels are drawn.
C5_ZeroWeightsRejected ==
    call.fn = "generate_users" =>
        /\ AllZero(Args.channel_pct) => users.status = "raised" /\ ~users.nan
        /\ ~AllZero(Args.channel_pct) =>
              SumSeq([i \in 1..Len(Args.channel_pct) |-> ProbsNum(Args.channel_pct, i)])
                  = ProbsDen(Args.channel_pct)

----------------------------------------------------------------------------
(* Claims about the seeded generators, under SpecSeeded *)

----------------------------------------------------------------------------
(* Claims about generate_payments and the cohort tables, under Spec *)

Paid == payments.status = "returned"
Pays == payments.rows

\* the payments of user uid, as positions of the dataset in payment_id order
PaymentsOf(uid) == {i \in 1..Len(Pays) : Pays[i].user_id = uid}

\* C6: every payment belongs to a user of the input dataset and is not earlier than
\* that user's registration.
C6_PaidAfterRegistration ==
    Paid =>
        \A i \in 1..Len(Pays) :
            /\ \E j \in 1..Len(Rows) : Rows[j].user_id = Pays[i].user_id
            /\ \A j \in 1..Len(Rows) :
                  Rows[j].user_id = Pays[i].user_id
                      => Pays[i].paid_at >= Rows[j].registered_at

\* two users registered on different days both pay, the later one on the very day
\* of registration
C6_Witness ==
    /\ Paid
    /\ Len(Rows) >= 2
    /\ Rows[1].registered_at < Rows[2].registered_at
    /\ PaymentsOf(Rows[1].user_id) # {}
    /\ \E i \in PaymentsOf(Rows[2].user_id) : Pays[i].paid_at = Rows[2].registered_at

\* C7: the payments of one user, in payment_id order, have strictly increasing
\* paid_at, whatever churn_months the call was accepted with.
C7_StrictlyIncreasing ==
    Paid =>
        \A i, j \in 1..Len(Pays) :
            (Pays[i].user_id = Pays[j].user_id /\ Pays[i].payment_id < Pays[j].payment_id)
                => Pays[i].paid_at < Pays[j].paid_at

\* a user with three payments or more, under a churn window shorter than 70 days
C7_Witness ==
    /\ Paid
    /\ call.args.churn_months_x10 = 10
    /\ \E u \in 1..Len(Rows) : Cardinality(PaymentsOf(Rows[u].user_id)) >= 3

\* the first payment of user uid: its lowest payment_id
FirstPaymentOf(uid) ==
    CHOOSE i \in PaymentsOf(uid) :
        \A j \in PaymentsOf(uid) : Pays[i].payment_id <= Pays[j].payment_id

FirstPaidInWindow(u) ==
    LET f == Pays[FirstPaymentOf(Rows[u].user_id)]
    IN  /\ Rows[u].registered_at <= f.paid_at
        /\ f.paid_at <= Rows[u].registered_at + Days(30)

\* C8 as stated: the first payment of every paying user is paid within 30 days of
\* the registration and its amount lies in [first_payment_min, first_payment_max].
C8_FirstAmountInRange ==
    Paid =>
        \A u \in 1..Len(Rows) :
            PaymentsOf(Rows[u].user_id) # {} =>
                /\ FirstPaidInWindow(u)
                /\ call.args.first_payment_min
                      <= Pays[FirstPaymentOf(Rows[u].user_id)].amount
                /\ Pays[FirstPaymentOf(Rows[u].user_id)].amount
                      <= call.args.first_payment_max

\* C8 amended: the first payment of every paying user is paid within 30 days of the
\* registration and its amount lies between first_payment_min and first_payment_max
\* both rounded to 2 decimals, whatever min_amount and max_amount are.
C8_FirstAmountInRoundedRange ==
    Paid =>
        \A u \in 1..Len(Rows) :
            PaymentsOf(Rows[u].user_id) # {} =>
                /\ FirstPaidInWindow(u)
                /\ Round2(call.args.first_payment_min)
                      <= Pays[FirstPaymentOf(Rows[u].user_id)].amount
                /\ Pays[FirstPaymentOf(Rows[u].user_id)].amount
                      <= Round2(call.args.first_payment_max)

\* a first payment below every amount of [min_amount, max_amount], followed by a
\* repeat payment of the same user
C8_Witness ==
    /\ Paid
    /\ \E u \in 1..Len(Rows) :
          /\ Cardinality(PaymentsOf(Rows[u].user_id)) >= 2
          /\ Pays[FirstPaymentOf(Rows[u].user_id)].amount < call.args.min_amount
          /\ Pays[FirstPaymentOf(Rows[u].user_id)].paid_at
                = Rows[u].registered_at + Days(30)

Tables == retention.status = "returned" /\ churn.status = "returned"

\* the cohorts (registration months) that have a payment at month-of-life m
CohortsPayingAt(m) ==
    {PeriodOf(Rows[u].registered_at) :
        u \in {v \in 1..Len(Rows) :
                 \E i \in PaymentsOf(Rows[v].user_id) :
                     MonthNumber(Pays[i].paid_at, Rows[v].registered_at) = m}}

AllCohorts == {PeriodOf(Rows[u].registered_at) : u \in 1..Len(Rows)}

\* C9: a cohort without a payer at month-of-life 0 is a row of neither table, and
\* no cell of either table is a division by zero.
C9_NoMonthZeroNoRow ==
    Tables =>
        /\ \A c \in AllCohorts \ CohortsPayingAt(0) :
              c \notin retention.index /\ c \notin churn.index
        /\ \A cm \in DOMAIN retention.cell : retention.cell[cm].den # 0
        /\ \A cm \in DOMAIN churn.cell : churn.cell[cm].den # 0

\* a cohort that pays at month-of-life 1 but not at 0, beside a cohort that is a row
C9_Witness ==
    /\ Tables
    /\ retention.index # {}
    /\ \E m \in 1..12 : (CohortsPayingAt(m) \ CohortsPayingAt(0)) # {}

\* C10: both tables have the same cells, and in every one of them
\* retention% + churn% = 100, filled cells included.
C10_Complementary ==
    Tables =>
        /\ DOMAIN retention.cell = DOMAIN churn.cell
        /\ retention.index = churn.index
        /\ retention.columns = churn.columns
        /\ \A cm \in DOMAIN retention.cell :
              LET r == retention.cell[cm]
                  c == churn.cell[cm]
              IN  r.num * c.den + c.num * r.den = 100 * r.den * c.den

\* a table of two months in which one cell has retention 0 and another retention 100
C10_Witness ==
    /\ Tables
    /\ Cardinality(retention.columns) >= 2
    /\ \E cm \in DOMAIN retention.cell : retention.cell[cm].num = 0
    /\ \E cm \in DOMAIN churn.cell : churn.cell[cm].num = 0

----------------------------------------------------------------------------
(* Claims about build_cohorts, under SpecCohorts *)

Cohorted == cohorts.status = "returned"

\* month-of-life of payment i made by the user of row u: calendar month of paid_at
\* minus calendar month of registered_at, not below 0
MonthOfLife(i, u) ==
    Max(PeriodOf(Pays[i].paid_at) - PeriodOf(Rows[u].registered_at), 0)

\* the payments of the users registered in month c that have month-of-life m
PaymentsIn(c, m) ==
    {i \in 1..Len(Pays) :
        \E u \in 1..Len(Rows) :
            /\ Rows[u].user_id = Pays[i].user_id
            /\ PeriodOf(Rows[u].registered_at) = c
            /\ MonthOfLife(i, u) = m}

RECURSIVE SumPaid(_)
SumPaid(is) ==
    IF is = {} THEN 0
    ELSE LET i == CHOOSE x \in is : TRUE
         IN  Pays[i].amount + SumPaid(is \ {i})

\* C11: every cell (c, m) of the revenue table is the sum of the amounts of the
\* payments of users registered in month c whose month-of-life (clamped to >= 0) is
\* m, which is 0 where there is no such payment; and every payment of a user of the
\* dataset is counted in a cell.
C11_RevenueCells ==
    Cohorted =>
        /\ \A c \in cohorts.revenue.index, m \in cohorts.revenue.columns :
              cohorts.revenue.cell[<<c, m>>] = SumPaid(PaymentsIn(c, m))
        /\ Rows # <<>> =>
              \A i \in 1..Len(Pays), u \in 1..Len(Rows) :
                  Rows[u].user_id = Pays[i].user_id
                      => /\ PeriodOf(Rows[u].registered_at) \in cohorts.revenue.index
                         /\ MonthOfLife(i, u) \in cohorts.revenue.columns

\* a table with a cell of two payments and a cell of none, from a dataset with a
\* payment made before the month of registration
C11_Witness ==
    /\ Cohorted
    /\ \E c \in cohorts.revenue.index, m \in cohorts.revenue.columns :
          Cardinality(PaymentsIn(c, m)) = 2
    /\ \E c \in cohorts.revenue.index, m \in cohorts.revenue.columns :
          PaymentsIn(c, m) = {} /\ cohorts.revenue.cell[<<c, m>>] = 0
    /\ \E i \in 1..Len(Pays), u \in 1..Len(Rows) :
          /\ Rows[u].user_id = Pays[i].user_id
          /\ PeriodOf(Pays[i].paid_at) < PeriodOf(Rows[u].registered_at)

\* the users registered in month c
UsersIn(c) == {u \in 1..Len(Rows) : PeriodOf(Rows[u].registered_at) = c}

\* the revenue of cohort c at month-of-life k: the cell of the revenue table, and
\* nothing where the table has no such cell
RevenueCell(c, k) ==
    IF <<c, k>> \in DOMAIN cohorts.revenue.cell THEN cohorts.revenue.cell[<<c, k>>]
    ELSE 0

RECURSIVE SumRevenue(_, _)
SumRevenue(c, ks) ==
    IF ks = {} THEN 0
    ELSE LET k == CHOOSE x \in ks : TRUE
         IN  RevenueCell(c, k) + SumRevenue(c, ks \ {k})

\* C12: every cell (c, m) of the cumulative LTV table is the sum of the cells of c
\* in the revenue table for the months 0..m, divided by the number of users
\* registered in c.
C12_LtvCells ==
    Cohorted =>
        \A c \in cohorts.ltv.index, m \in cohorts.ltv.columns :
            LET v == cohorts.ltv.cell[<<c, m>>]
            IN  /\ ~v.nan
                /\ v.num * Cardinality(UsersIn(c)) = v.den * SumRevenue(c, 0..m)

----------------------------------------------------------------------------
(* Claims about the scalar calculators, under SpecMetrics *)

Calculators ==
    {"calc_conversion_rate", "calc_arpu", "calc_arppu", "calc_ltv_n_months",
     "calc_paying_share", "calc_avg_check_repeat", "calc_churn_rate"}

\* the calculators whose result is computed from the users, and from the payments
ReadUsers ==
    {"calc_conversion_rate", "calc_arpu", "calc_ltv_n_months", "calc_paying_share"}
ReadPayments ==
    {"calc_arpu", "calc_arppu", "calc_ltv_n_months", "calc_paying_share",
     "calc_avg_check_repeat", "calc_churn_rate"}

IsZero(v) == ~v.nan /\ v.num = 0

\* C13 as stated: every calculator returns 0 and does not raise when the users
\* dataset is empty, when the payments dataset is empty, or when both are.
C13_ZeroOnEmpty ==
    (metric.fn \in Calculators /\ (Rows = <<>> \/ Pays = <<>>))
        => metric.status = "returned" /\ IsZero(metric.value)

\* C13: no calculator raises, and a calculator returns 0 when a dataset its result
\* is computed from is empty: the users for the conversion rate, the payments for
\* ARPPU, the average repeat check and the churn rate, either of them for ARPU,
\* LTV and the paying share.
C13_ZeroOnEmptyInput ==
    metric.fn \in Calculators
        => /\ metric.status = "returned"
           /\ (metric.fn \in ReadUsers /\ Rows = <<>>) => IsZero(metric.value)
           /\ (metric.fn \in ReadPayments /\ Pays = <<>>) => IsZero(metric.value)

\* the paying share of no users who have payments all the same
C13_Witness ==
    /\ metric.fn = "calc_paying_share"
    /\ Rows = <<>> /\ Pays # <<>>
    /\ IsZero(metric.value)

----------------------------------------------------------------------------
(* Claims about churn_rate_by_month, under SpecChurn *)

\* the calendar months in which a payment was made
Observed == {PeriodOf(Pays[i].paid_at) : i \in 1..Len(Pays)}

PayerIds == {Pays[i].user_id : i \in 1..Len(Pays)}

\* the time of the last payment of payer uid
LastPaid(uid) ==
    CHOOSE t \in {Pays[i].paid_at : i \in PaymentsOf(uid)} :
        \A i \in PaymentsOf(uid) : Pays[i].paid_at <= t

\* active(M) and churned(M) with the window of d days
ActiveAt(M, d) == {u \in PayerIds : LastPaid(u) >= StartOfMonth(M) - Days(d)}
ChurnedAt(M, d) == {u \in ActiveAt(M, d) : LastPaid(u) < StartOfMonth(M)}

\* C14: the series has an entry for exactly the observed payment months M after the
\* first whose active(M) is not empty, the entry is churned(M) / active(M) x 100,
\* and the series is empty when the payments span fewer than 2 calendar months.
C14_ChurnByMonth ==
    \A d \in DOMAIN by_month :
        LET s == by_month[d]
        IN  /\ s.keys = {M \in Observed :
                           (\E K \in Observed : K < M) /\ ActiveAt(M, d) # {}}
            /\ \A M \in s.keys :
                  /\ ~s.value[M].nan
                  /\ s.value[M].num * Cardinality(ActiveAt(M, d))
                        = 100 * Cardinality(ChurnedAt(M, d)) * s.value[M].den
            /\ Cardinality(Observed) < 2 => s.keys = {}

\* a series with an entry strictly between 0 and 100
C14_Witness ==
    \E d \in DOMAIN by_month :
        \E M \in by_month[d].keys :
            /\ 0 < by_month[d].value[M].num
            /\ by_month[d].value[M].num < 100 * by_month[d].value[M].den
            /\ Cardinality(Observed) >= 2

\* C15: for the same payments, the value of a month never grows with inactive_days.
C15_MonotoneInInactiveDays ==
    \A d1, d2 \in DOMAIN by_month :
        d2 >= d1 =>
            \A M \in by_month[d1].keys \cap by_month[d2].keys :
                by_month[d2].value[M].num * by_month[d1].value[M].den
                    <= by_month[d1].value[M].num * by_month[d2].value[M].den

\* the users with a payment in calendar month M
PaidIn(M) == {Pays[i].user_id : i \in {j \in 1..Len(Pays) : PeriodOf(Pays[j].paid_at) = M}}

\* C16: the value of month M is the share of the users who paid in month M-1 that
\* made no payment in month M.
C16_ShareOfPreviousMonthPayers ==
    \A d \in DOMAIN by_month :
        \A M \in by_month[d].keys :
            PaidIn(M - 1) # {} =>
                by_month[d].value[M].num * Cardinality(PaidIn(M - 1))
                    = 100 * Cardinality(PaidIn(M - 1) \ PaidIn(M)) * by_month[d].value[M].den

----------------------------------------------------------------------------
(* Claims about the unit economics, under SpecUnit *)

\* C17: calc_payback_months returns None exactly when the monthly ARPU is <= 0 and
\* CAC / monthly ARPU otherwise; calc_roi_by_cohorts returns an empty series
\* whenever CAC <= 0 or the LTV table is empty, whatever last_n_months is.
C17_UndefinedUnitEconomics ==
    /\ metric.fn = "calc_payback_months" =>
          /\ metric.status = "returned"
          /\ (metric.value = None) <=> (Args.arpu_monthly.num <= 0)
          /\ Args.arpu_monthly.num > 0 =>
                metric.value.num * Args.arpu_monthly.num
                    = Args.cac * Args.arpu_monthly.den * metric.value.den
    /\ (/\ metric.fn = "calc_roi_by_cohorts"
        /\ \/ Args.cac <= 0
           \/ cohorts.ltv.index = {}
           \/ cohorts.ltv.columns = {}) =>
          metric.status = "returned" /\ metric.value.keys = {}

\* the payback of a positive CAC at a negative monthly ARPU
C17_Witness ==
    /\ metric.fn = "calc_payback_months"
    /\ Args.cac > 0 /\ Args.arpu_monthly.num < 0
    /\ metric.value = None

\* the ROI of a table with cohorts, at CAC 0
C17_WitnessRoi ==
    /\ metric.fn = "calc_roi_by_cohorts"
    /\ Args.cac = 0 /\ cohorts.ltv.index # {} /\ cohorts.ltv.columns # {}
    /\ metric.value.keys = {}

----------------------------------------------------------------------------
(* Claims about ab_metrics, under SpecAB *)

\* the users dataset has the column variant and a user of each of the two groups
HasBothVariants ==
    /\ Args.variant_column
    /\ \E i \in 1..Len(Rows) : Rows[i].variant = "control"
    /\ \E i \in 1..Len(Rows) : Rows[i].variant = "test"

\* C18: without a member of each of the labels control and test, ab_metrics returns
\* the neutral result (empty summary, p_value 0, uplift 0, not significant) and
\* does not raise, also when there are two labels of which one is neither.
C18_NeutralWithoutBothVariants ==
    (metric.fn = "ab_metrics" /\ ~HasBothVariants)
        => metric.status = "returned" /\ metric.value = Neutral

\* C19: with both variants present ab_metrics never raises, whatever the
\* conversions and the revenues of the groups are.
C19_NeverRaises ==
    (metric.fn = "ab_metrics" /\ HasBothVariants) => metric.status = "returned"

\* the two groups, as positions of the users dataset, and their converted members
Control == {i \in 1..Len(Rows) : Rows[i].variant = "control"}
Test == {i \in 1..Len(Rows) : Rows[i].variant = "test"}
Conv(group) == Cardinality({i \in group : Rows[i].converted})

\* cr_test = cr_control
SameProportions ==
    Conv(Test) * Cardinality(Control) = Conv(Control) * Cardinality(Test)

\* uplift = (cr_test - cr_control) / cr_control x 100, and 0 when cr_control is 0
UpliftAsDocumented(uplift) ==
    IF Conv(Control) = 0 THEN uplift.num = 0
    ELSE uplift.num * Conv(Control) * Cardinality(Test)
            = uplift.den * 100 * (Conv(Test) * Cardinality(Control)
                                    - Conv(Control) * Cardinality(Test))

\* what ab_metrics returns when it returns a comparison: the documented uplift, and
\* significant = (p_value of the conversions < 0.05) whatever the t-test of the
\* revenues gave; equal proportions give uplift 0 and not significant
C21_ReturnedComparison ==
    (metric.fn = "ab_metrics" /\ HasBothVariants /\ metric.status = "returned") =>
        /\ UpliftAsDocumented(metric.value.uplift)
        /\ metric.value.significant <=> PBelowAlpha(metric.value.p_value)
        /\ SameProportions =>
              metric.value.uplift.num = 0 /\ ~metric.value.significant

\* C21: the uplift of ab_metrics is (cr_test - cr_control) / cr_control x 100, and 0
\* when cr_control is 0; is_significant is (p_value of the conversions < 0.05)
\* whatever the t-test of the revenues gives; two groups with the same conversion
\* proportion give uplift 0 and is_significant false.
C21_UpliftAndSignificance ==
    (metric.fn = "ab_metrics" /\ HasBothVariants) =>
        /\ metric.status = "returned"
        /\ UpliftAsDocumented(metric.value.uplift)
        /\ metric.value.significant <=> PBelowAlpha(metric.value.p_value)
        /\ SameProportions =>
              metric.value.uplift.num = 0 /\ ~metric.value.significant


----------------------------------------------------------------------------
(* Claims about the MDE solvers, under SpecMde *)

\* C20: for every p_control strictly between 0 and 1 and every target_lift_pct,
\* calc_mde_and_sample_size returns a pair and does not raise.
C20_ReturnsPair ==
    (/\ metric.fn = "calc_mde_and_sample_size"
     /\ 0 < Args.p_control /\ Args.p_control < 1000)
        => metric.status = "returned"

\* C22: calc_mde_simple returns 0 whenever n_per_group <= 0 or p_control <= 0 or
\* p_control >= 1, and calc_mde_and_sample_size returns (0, 0) whenever
\* p_control <= 0 or p_control >= 1; in neither case is the power formula or the
\* root-finder evaluated.
C22_GuardResults ==
    /\ (/\ metric.fn = "calc_mde_simple"
        /\ \/ Args.n_per_group <= 0
           \/ Args.p_control <= 0
           \/ Args.p_control >= 1000) =>
          /\ metric.status = "returned"
          /\ metric.value.num = 0 /\ ~metric.value.nan
          /\ metric.evaluated = {}
    /\ (/\ metric.fn = "calc_mde_and_sample_size"
        /\ Args.p_control <= 0 \/ Args.p_control >= 1000) =>
          /\ metric.status = "returned"
          /\ metric.value.mde_pct.num = 0 /\ metric.value.n = 0
          /\ metric.evaluated = {}

\* calc_mde_simple for a baseline conversion inside (0, 1) and no sample
C22_Witness ==
    /\ metric.fn = "calc_mde_simple"
    /\ Args.n_per_group <= 0
    /\ 0 < Args.p_control /\ Args.p_control < 1000
    /\ metric.value.num = 0
    /\ metric.evaluated = {}

\* calc_mde_and_sample_size for a baseline conversion above 1
C22_WitnessPair ==
    /\ metric.fn = "calc_mde_and_sample_size"
    /\ Args.p_control > 1000
    /\ metric.value = MdePair(Ratio(0, 1), 0)

\* calc_mde_and_sample_size was called with a baseline conversion inside (0, 1)
SolvedAtReference ==
    /\ metric.fn = "calc_mde_and_sample_size"
    /\ 0 < Args.p_control /\ Args.p_control < 1000

\* whenever calc_mde_and_sample_size returns a pair for such a baseline, its MDE
\* is the one calc_mde_simple gives at the reference size, the sentinel included
C23_ReturnedMdeAgrees ==
    (SolvedAtReference /\ metric.status = "returned") =>
        metric.value.mde_pct = calc_mde_simple(n_ref, Args.p_control).value

\* C23: for every p_control in (0, 1) and every target_lift_pct, the MDE returned
\* by calc_mde_and_sample_size equals calc_mde_simple(1000, p_control), also when
\* both fall back to the 50% sentinel.
C23_RoundTrip ==
    SolvedAtReference =>
        /\ metric.status = "returned"
        /\ calc_mde_simple(n_ref, Args.p_control).status = "returned"
        /\ metric.value.mde_pct = calc_mde_simple(n_ref, Args.p_control).value

----------------------------------------------------------------------------
(* Claims about main, under SpecMain *)

\* C24: in every run of main, whatever the sidebar holds, generate_users is called
\* with channel shares whose sum is > 0 and generate_payments with
\* min_amount <= max_amount.
C24_CallerValidates ==
    call.fn = "main" =>
        /\ call.users_args.channel_den > 0
        /\ SumSeq(call.users_args.channel_pct) > 0
        /\ call.payments_args.min_amount <= call.payments_args.max_amount
        /\ users.status = "returned"
        /\ payments.status = "returned"

\* a run with every channel slider at 0 and the minimum above the maximum, in
\* which payments were generated
C24_Witness ==
    /\ call.fn = "main"
    /\ call.args.pct = <<0, 0, 0>>
    /\ call.args.min_amount > call.args.max_amount
    /\ payments.status = "returned"
    /\ payments.rows # <<>>

----------------------------------------------------------------------------
(* Claims about the repeat payments of generate_payments, under Spec *)

\* the locals kept of the call that gave the dataset, one record for every payer
Draws == payments.draws

\* churn_days = churn_months x 30 of the call, in ticks
ChurnDaysOfCall == call.args.churn_months_x10 * 3 * TicksPerDay

\* the gaps of a payer's loop that exceed churn_days, as positions
Exceeding(gaps) == {i \in 1..Len(gaps) : gaps[i] > ChurnDaysOfCall}

\* payment j is the payment of the same user that follows payment i
Follows(i, j) ==
    /\ Pays[i].user_id = Pays[j].user_id
    /\ Pays[i].payment_id < Pays[j].payment_id
    /\ ~\E m \in PaymentsOf(Pays[i].user_id) :
          Pays[i].payment_id < Pays[m].payment_id
              /\ Pays[m].payment_id < Pays[j].payment_id

NumberOf(i) ==
    Cardinality({j \in PaymentsOf(Pays[i].user_id) :
                    Pays[j].payment_id <= Pays[i].payment_id})

\* low <= amount <= high, low and high in mills and doubled
InDoubled(amount, low2, high2) == low2 <= 2 * amount /\ 2 * amount <= high2

\* C26 as stated: every payment numbered >= 3 of a user has its amount in
\* [(min_amount + max_amount) / 2, max_amount], and the payments numbered 1 and 2
\* have their amounts in [min_amount, max_amount].
C26_AmountPolicy ==
    Paid =>
        \A i \in 1..Len(Pays) :
            IF NumberOf(i) >= 3
            THEN InDoubled(Pays[i].amount,
                           call.args.min_amount + call.args.max_amount,
                           2 * call.args.max_amount)
            ELSE InDoubled(Pays[i].amount,
                           2 * call.args.min_amount, 2 * call.args.max_amount)

\* the range the amount of payment number n is drawn from, in mills and doubled
DrawnFrom(n) ==
    IF n = 1 THEN <<2 * call.args.first_payment_min, 2 * call.args.first_payment_max>>
    ELSE IF n = 2 THEN <<2 * call.args.min_amount, 2 * call.args.max_amount>>
    ELSE <<call.args.min_amount + call.args.max_amount, 2 * call.args.max_amount>>

\* C26 amended: payment 1 of a user has its amount drawn from
\* [first_payment_min, first_payment_max], payment 2 from [min_amount, max_amount],
\* every payment numbered >= 3 from [(min_amount + max_amount) / 2, max_amount];
\* the amount stored is the draw rounded to 2 decimals.
C26_AmountPolicyByNumber ==
    Paid =>
        \A i \in 1..Len(Pays) :
            LET low == (DrawnFrom(NumberOf(i))[1] + 1) \div 2
                high == DrawnFrom(NumberOf(i))[2] \div 2
            IN  /\ Pays[i].amount % 10 = 0
                /\ Round2(low) <= Pays[i].amount
                /\ Pays[i].amount <= Round2(high)

\* a user whose first payment is below min_amount, whose second payment is in the
\* lower half of [min_amount, max_amount] and whose third payment is in the upper
C26_Witness ==
    /\ Paid
    /\ \E i, j, m \in 1..Len(Pays) :
          /\ Follows(i, j) /\ Follows(j, m)
          /\ NumberOf(i) = 1 /\ Pays[i].amount < call.args.min_amount
          /\ 2 * Pays[j].amount < call.args.min_amount + call.args.max_amount
          /\ 2 * Pays[m].amount >= call.args.min_amount + call.args.max_amount

\* C27: the payment_id values of a returned dataset are exactly 1..M, each once,
\* given in the order the payments are emitted; the payers are processed in
\* ascending user_id, so in payment_id order user_id never decreases and the
\* payments of a user are contiguous.
C27_PaymentIdsDense ==
    Paid =>
        /\ \A i \in 1..Len(Pays) : Pays[i].payment_id = i
        /\ {Pays[i].payment_id : i \in 1..Len(Pays)} = 1..Len(Pays)
        /\ \A i, j \in 1..Len(Pays) :
              Pays[i].payment_id < Pays[j].payment_id
                  => Pays[i].user_id <= Pays[j].user_id
        /\ \A i, j, m \in 1..Len(Pays) :
              (/\ Pays[i].payment_id < Pays[m].payment_id
               /\ Pays[m].payment_id < Pays[j].payment_id
               /\ Pays[i].user_id = Pays[j].user_id)
                  => Pays[m].user_id = Pays[i].user_id

\* two users pay, the first of them more than once
C27_Witness ==
    /\ Paid
    /\ Len(Rows) >= 2
    /\ Cardinality(PaymentsOf(Rows[1].user_id)) >= 2
    /\ PaymentsOf(Rows[2].user_id) # {}

----------------------------------------------------------------------------
(* Claims about calc_churn_rate, under SpecMetrics *)

\* the reference of the call: the date given, or the latest payment
ReferenceOfCall ==
    IF Args.reference_date # NoDate THEN Args.reference_date
    ELSE CHOOSE t \in {Pays[i].paid_at : i \in 1..Len(Pays)} :
             \A i \in 1..Len(Pays) : Pays[i].paid_at <= t

\* active: the payers whose last payment is not before
\* reference - period_days - inactive_days
ActivePayers ==
    IF Pays = <<>> THEN {}
    ELSE {u \in PayerIds :
            LastPaid(u) >= ReferenceOfCall - Days(period_days) - Days(Args.inactive_days)}

\* churned: the active payers whose last payment is before reference - inactive_days
ChurnedPayers ==
    {u \in ActivePayers : LastPaid(u) < ReferenceOfCall - Days(Args.inactive_days)}

\* C28: calc_churn_rate returns churned / active x 100 with active and churned as
\* above and the reference defaulting to the latest payment; it returns 0 when
\* active is empty, and the result lies in [0, 100].
C28_ChurnRate ==
    metric.fn = "calc_churn_rate" =>
        /\ metric.status = "returned"
        /\ ~metric.value.nan /\ metric.value.den > 0
        /\ ActivePayers = {} => metric.value.num = 0
        /\ ActivePayers # {} =>
              metric.value.num * Cardinality(ActivePayers)
                  = 100 * Cardinality(ChurnedPayers) * metric.value.den
        /\ 0 <= metric.value.num /\ metric.value.num <= 100 * metric.value.den

\* with the reference left to default, two active payers of whom one has churned
C28_Witness ==
    /\ metric.fn = "calc_churn_rate"
    /\ Args.reference_date = NoDate
    /\ Cardinality(ActivePayers) = 2
    /\ Cardinality(ChurnedPayers) = 1
    /\ metric.value.num * 2 = 100 * metric.value.den

\* payments, and a reference so late that no payer is active
C28_WitnessNobodyActive ==
    /\ metric.fn = "calc_churn_rate"
    /\ Pays # <<>>
    /\ ActivePayers = {}
    /\ metric.value.num = 0

\* C29: with churn_months x 30 >= 7 every gap is drawn from
\* [7, min(churn_days, 70)] and none exceeds churn_days, so the cutoff is never
\* taken: a payer who does not repeat has exactly 1 payment, a payer who repeats
\* with drawn count k in 1..5 has exactly 1 + k payments, at most 6.
C29_CutoffNeverTaken ==
    (Paid /\ ChurnDaysOfCall >= Days(7)) =>
        /\ {Draws[d].user_id : d \in 1..Len(Draws)} = PayerIds
        /\ \A d \in 1..Len(Draws) :
              LET gaps == Draws[d].gaps
              IN  /\ \A i \in 1..Len(gaps) :
                        /\ Days(7) <= gaps[i]
                        /\ gaps[i] <= Min(ChurnDaysOfCall, Days(70))
                  /\ Exceeding(gaps) = {}
                  /\ Draws[d].n_repeat \in 0..5
                  /\ Len(gaps) = Draws[d].n_repeat
                  /\ Cardinality(PaymentsOf(Draws[d].user_id)) = 1 + Draws[d].n_repeat
        /\ \A u \in PayerIds : Cardinality(PaymentsOf(u)) <= 6

\* under a churn window of 30 days, a payer who drew 5 repeats, the longest gap
\* possible among them, and has 6 payments
C29_Witness ==
    /\ Paid
    /\ call.args.churn_months_x10 = 10
    /\ \E d \in 1..Len(Draws) :
          /\ Draws[d].n_repeat = 5
          /\ \E i \in 1..5 : Draws[d].gaps[i] = ChurnDaysOfCall
          /\ Cardinality(PaymentsOf(Draws[d].user_id)) = 6

\* a payer who does not repeat, beside a payer who does
C29_WitnessOnePayment ==
    /\ Paid
    /\ \E d \in 1..Len(Draws) : Draws[d].n_repeat = 0
    /\ \E d \in 1..Len(Draws) : Draws[d].n_repeat >= 3

----------------------------------------------------------------------------
(* Claims about the LTV table and the ROI computed from it, under SpecUnit *)

\* C30: the LTV table of build_cohorts has exactly the cohort rows of the revenue
\* table and every cell of it is a defined number (a cohort with users and no
\* payments is not a row of undefined values), so calc_roi_by_cohorts gives a
\* defined ROI for every cohort it reports.
C30_LtvRowsDefined ==
    cohorts.status = "returned" =>
        /\ cohorts.ltv.index = cohorts.revenue.index
        /\ \A cm \in DOMAIN cohorts.ltv.cell : ~cohorts.ltv.cell[cm].nan
        /\ (metric.fn = "calc_roi_by_cohorts" /\ metric.status = "returned") =>
              \A c \in metric.value.keys : ~metric.value.value[c].nan

\* the ROI series reports a cohort with an undefined ROI beside a defined one
C30_UndefinedRoiReported ==
    /\ metric.fn = "calc_roi_by_cohorts"
    /\ \E c \in metric.value.keys : metric.value.value[c].nan
    /\ \E c \in metric.value.keys : ~metric.value.value[c].nan

====
